---- MODULE Spec2Model ----
(***************************************************************************)
(* The password-based encryption container of jj_toolkit (src/crypt.rs):   *)
(* encrypt and decrypt as step machines over a small filesystem.           *)
(*                                                                         *)
(* Bytes are integers 0..255, byte strings are sequences of bytes, an      *)
(* Option<T> is <<>> (None) or <<x>> (Some(x)), a path is the sequence of  *)
(* its components and a component is a byte string.                        *)
(*                                                                         *)
(* The external crates (argon2, chacha20poly1305, tar, zstd, rand,         *)
(* rpassword) are not part of the repository; each is modelled by a small  *)
(* deterministic stand-in with the crate's contract (see the comments at   *)
(* Argon2id, Seal, Open, TarBuild, ZstdEncode).                            *)
(***************************************************************************)
EXTENDS Naturals, Integers, Sequences, FiniteSets, TLC

----------------------------------------------------------------------------
(* Generic helpers on byte strings *)

None == <<>>
Some(x) == <<x>>
IsSome(o) == o # <<>>
Unwrap(o) == o[1]
UnwrapOr(o, d) == IF o = <<>> THEN d ELSE o[1]

Zeros(n) == [i \in 1..n |-> 0]
IsZero(s) == \A i \in 1..Len(s) : s[i] = 0

Take(s, n) == SubSeq(s, 1, n)
Drop(s, n) == SubSeq(s, n + 1, Len(s))

RECURSIVE Flatten(_)
Flatten(ss) == IF ss = <<>> THEN <<>> ELSE Head(ss) \o Flatten(Tail(ss))

\* u16/u32/u64::to_le_bytes
RECURSIVE ToLe(_, _)
ToLe(v, n) == IF n = 0 THEN <<>> ELSE <<v % 256>> \o ToLe(v \div 256, n - 1)

\* u16/u32::from_le_bytes
RECURSIVE FromLe(_)
FromLe(b) == IF b = <<>> THEN 0 ELSE b[1] + 256 * FromLe(Tail(b))

\* the exclusive or of two bytes, bit by bit
Xor(u, v) ==
    LET bit(w) == (((u \div w) % 2) + ((v \div w) % 2)) % 2
    IN  bit(1) + 2 * bit(2) + 4 * bit(4) + 8 * bit(8) + 16 * bit(16)
        + 32 * bit(32) + 64 * bit(64) + 128 * bit(128)

Pow2(k) == 2 ^ k
FlipBitOf(s, pos, bit) == [s EXCEPT ![pos] = Xor(s[pos], Pow2(bit))]

----------------------------------------------------------------------------
(* Program constants *)

\* b"JJTOOL"
MAGIC == <<74, 74, 84, 79, 79, 76>>
VERSION == 2
KindFile == 0
KindDirectory == 1
U16Max == 65535
SaltLen == 16
KeyLen == 32
NonceLen == 24
TagLen == 16
\* magic 6 + version 1 + costs 12 + salt 16 + nonce 24 + ct_len 8
HeaderLen == Len(MAGIC) + 1 + 4 + 4 + 4 + SaltLen + NonceLen + 8

----------------------------------------------------------------------------
(* Names used by the code and the model, as byte strings *)

\* '.', the extension separator of std::path
ChDot == 46
\* "jj"
StrJj == <<106, 106>>
\* "out"
StrOut == <<111, 117, 116>>
\* "output"
StrOutput == <<111, 117, 116, 112, 117, 116>>
\* "dir"
StrDir == <<100, 105, 114>>
DotDot == <<ChDot, ChDot>>

----------------------------------------------------------------------------
(* std::path and std::str, on components that hold no separator *)

\* OsStr::to_str: Some iff valid UTF-8.  The model's names are ASCII bytes
\* and the byte 255 (which occurs in no UTF-8 encoding), so validity is
\* "no byte above 127".
ToStr(s) == IF \A i \in 1..Len(s) : s[i] < 128 THEN Some(s) ELSE None

\* String::from_utf8_lossy: each ill-formed byte becomes U+FFFD (EF BF BD).
RECURSIVE FromUtf8Lossy(_)
FromUtf8Lossy(s) ==
    IF s = <<>> THEN <<>>
    ELSE (IF s[1] < 128 THEN <<s[1]>> ELSE <<239, 191, 189>>)
         \o FromUtf8Lossy(Tail(s))

\* Path::file_name: the last component when it is a normal one
FileName(p) ==
    IF p = <<>> \/ p[Len(p)] = DotDot THEN None ELSE Some(p[Len(p)])

LastDot(n) ==
    IF \E i \in 1..Len(n) : n[i] = ChDot
    THEN CHOOSE i \in 1..Len(n) :
            n[i] = ChDot /\ \A j \in (i + 1)..Len(n) : n[j] # ChDot
    ELSE 0

\* std's rsplit_file_at_dot: <<stem, extension>> as options
RSplitFileAtDot(n) ==
    IF n = DotDot \/ LastDot(n) = 0 THEN <<Some(n), None>>
    ELSE IF LastDot(n) = 1 THEN <<Some(n), None>>
    ELSE <<Some(Take(n, LastDot(n) - 1)), Some(Drop(n, LastDot(n)))>>

FileStem(p) ==
    IF FileName(p) = None THEN None ELSE RSplitFileAtDot(Unwrap(FileName(p)))[1]

Extension(p) ==
    IF FileName(p) = None THEN None ELSE RSplitFileAtDot(Unwrap(FileName(p)))[2]

\* PathBuf::set_extension: false (path unchanged) without a file name;
\* otherwise the name is cut back to its stem and "." + ext appended
\* when ext is not empty.
SetExtension(p, ext) ==
    IF FileStem(p) = None THEN p
    ELSE [p EXCEPT ![Len(p)] =
            Unwrap(FileStem(p)) \o (IF ext = <<>> THEN <<>> ELSE <<ChDot>> \o ext)]

\* Path::parent
Parent(p) == IF p = <<>> THEN None ELSE Some(Take(p, Len(p) - 1))

\* Path::join with a single normal component
Join(p, n) == Append(p, n)

IsPrefix(p, q) == Len(p) <= Len(q) /\ Take(q, Len(p)) = p

----------------------------------------------------------------------------
(* argon2: Params::new and Argon2::hash_password_into *)

\* A 16-bit polynomial digest; the stand-ins below use it where the real
\* primitive is a cryptographic function: Digest(s) is the sum of
\* (s[i] + 1) * 31^(Len(s) - i) modulo the prime 32749, so changing one
\* byte of the input always changes the digest.
\* The two halves are digested apart and combined, and each half is bound
\* as a value before it is digested.
RECURSIVE PowMod31(_)
PowMod31(e) ==
    IF e = 0 THEN 1
    ELSE IF e % 2 = 1 THEN (31 * PowMod31(e - 1)) % 32749
    ELSE LET h == PowMod31(e \div 2) IN (h * h) % 32749

Mix(h, b) == (h * 31 + b + 1) % 32749

RECURSIVE Digest(_)
Digest(s) ==
    IF Len(s) = 0 THEN 0
    ELSE IF Len(s) = 1 THEN Mix(0, s[1])
    ELSE CHOOSE d \in {(Digest(l) * PowMod31(Len(r)) + Digest(r)) % 32749 :
                        <<l, r>> \in {<<SubSeq(s, 1, Len(s) \div 2),
                                        SubSeq(s, Len(s) \div 2 + 1, Len(s))>>}} :
            TRUE

\* a parameter check that does not look at the number of lanes
ParamsValidAnyLanes(m, t, p) ==
    /\ m >= 8
    /\ t >= 1

\* Params::new(m_cost, t_cost, p_cost, None): argon2's parameter checks
\* (MIN_M_COST = 8, m_cost >= 8 * p_cost, MIN_T_COST = 1, MIN_P_COST = 1,
\* MAX_P_COST = 0xFFFFFF)
ParamsValid(m, t, p) ==
    /\ m >= 8
    /\ p >= 1
    /\ p <= 16777215
    /\ m >= 8 * p
    /\ t >= 1

\* Argon2id: a deterministic function of password, salt and the three costs
\* with a 32-byte output.  Stand-in: byte i of the key is drawn from the
\* digest of all inputs; the first two bytes carry the digest itself, so
\* two derivations agree iff their digests agree.
KdfDigest(pw, s, m, t, p) ==
    Digest(ToLe(m, 4) \o ToLe(t, 4) \o ToLe(p, 4) \o s \o <<Len(pw)>> \o pw)

Argon2id(pw, s, m, t, p) ==
    LET d == KdfDigest(pw, s, m, t, p)
    IN  ToLe(d, 2) \o [i \in 1..(KeyLen - 2) |-> (Mix(d, i) % 255) + 1]

----------------------------------------------------------------------------
(* chacha20poly1305: XChaCha20Poly1305::encrypt / decrypt, no associated data *)

\* keystream byte i of the stream whose (key, nonce) digest is kd
KeyStream(kd, i) == Mix(kd, i) % 256

\* each byte of s under the keystream of (key, nonce); the digest kd is
\* bound once for all bytes
StreamXor(k, n, s) ==
    CHOOSE out \in {[i \in 1..Len(s) |-> Xor(s[i], KeyStream(kd, i))] :
                      kd \in {Digest(k \o n)}} : TRUE

\* the 16-byte tag over the ciphertext body under (key, nonce)
Tag(k, n, body) ==
    CHOOSE tag \in {ToLe(d, 2) \o [i \in 1..(TagLen - 2) |-> Mix(d, i) % 256] :
                      d \in {Digest(k \o n \o body)}} : TRUE

\* Aead::encrypt(nonce, plaintext): ciphertext body followed by the tag
Seal(k, n, pt) ==
    CHOOSE ct \in {body \o Tag(k, n, body) : body \in {StreamXor(k, n, pt)}} : TRUE

\* an open that decrypts without comparing the tag
OpenUnchecked(k, n, ct) ==
    IF Len(ct) < TagLen THEN None
    ELSE Some(StreamXor(k, n, Take(ct, Len(ct) - TagLen)))

\* Aead::decrypt(nonce, ciphertext): Some(plaintext) when the tag verifies,
\* None (aead::Error) when the input is shorter than a tag or the tag differs
Open(k, n, ct) ==
    IF Len(ct) < TagLen THEN None
    ELSE LET body == Take(ct, Len(ct) - TagLen)
             tag == Drop(ct, Len(ct) - TagLen)
         IN  IF tag = Tag(k, n, body) THEN Some(StreamXor(k, n, body)) ELSE None

----------------------------------------------------------------------------
(* The filesystem: a function from paths to nodes.  The empty path is the *)
(* working directory, which always exists.                                 *)

FileNode(d) == [dir |-> FALSE, data |-> d]
DirNode == [dir |-> TRUE, data |-> <<>>]

Exists(f, p) == p = <<>> \/ p \in DOMAIN f
\* Path::is_dir, Path::is_file
IsDir(f, p) == p = <<>> \/ (p \in DOMAIN f /\ f[p].dir)
IsFile(f, p) == p \in DOMAIN f /\ ~f[p].dir

Put(f, p, node) == [q \in DOMAIN f \cup {p} |-> IF q = p THEN node ELSE f[q]]

\* std::fs::create_dir_all: every missing prefix of p becomes a directory
CreateDirAll(f, p) ==
    LET new == {Take(p, k) : k \in 1..Len(p)} \ DOMAIN f
    IN  [q \in DOMAIN f \cup new |-> IF q \in new THEN DirNode ELSE f[q]]

\* File::create succeeds when the path names no directory and its parent is one
CanCreate(f, p) == p # <<>> /\ ~IsDir(f, p) /\ IsDir(f, Take(p, Len(p) - 1))

----------------------------------------------------------------------------
(* tar and zstd *)

\* An archive entry: its path inside the archive, its type, its content
Entry(path, dir, data) == [path |-> path, dir |-> dir, data |-> data]

\* read_dir yields the children of a directory in no specified order; the
\* walk of Builder::append_dir_all always emits a directory before what it
\* holds.  The stand-in orders entries by depth.
RECURSIVE OrderByDepth(_)
OrderByDepth(S) ==
    IF S = {} THEN <<>>
    ELSE LET q == CHOOSE q \in S : \A o \in S : Len(q) <= Len(o)
         IN  <<q>> \o OrderByDepth(S \ {q})

\* Builder::append_dir_all(base_name, input_path): the directory itself as
\* base_name, then everything below it with base_name as prefix
TarEntries(f, base_name, input_path) ==
    LET below == {q \in DOMAIN f : IsPrefix(input_path, q)}
        ord == OrderByDepth(below)
    IN  [i \in 1..Len(ord) |->
            Entry(<<base_name>> \o Drop(ord[i], Len(input_path)),
                  f[ord[i]].dir, f[ord[i]].data)]

\* components joined with '/'
RECURSIVE JoinSlash(_)
JoinSlash(p) ==
    IF p = <<>> THEN <<>>
    ELSE IF Len(p) = 1 THEN p[1]
    ELSE p[1] \o <<47>> \o JoinSlash(Tail(p))

\* the components of a '/'-separated name (Path::components; empty ones dropped)
RECURSIVE SplitSlash(_, _)
SplitSlash(b, cur) ==
    IF b = <<>> THEN (IF cur = <<>> THEN <<>> ELSE <<cur>>)
    ELSE IF b[1] = 47
         THEN (IF cur = <<>> THEN <<>> ELSE <<cur>>) \o SplitSlash(Tail(b), <<>>)
         ELSE SplitSlash(Tail(b), Append(cur, b[1]))

\* The archive bytes.  Stand-in for the 512-byte-block format: per entry a
\* type flag ('5' directory, '0' file), the name length, the name, the
\* content length and the content; a zero byte ends the archive.
RECURSIVE TarBuild(_)
TarBuild(es) ==
    IF es = <<>> THEN <<0>>
    ELSE LET e == es[1]
             name == JoinSlash(e.path)
         IN  <<IF e.dir THEN 53 ELSE 48, Len(name)>> \o name
             \o <<Len(e.data)>> \o e.data \o TarBuild(Tail(es))

\* Archive::entries: the entries read up to the end marker, and whether the
\* archive was well-formed up to there
RECURSIVE TarParse(_)
TarParse(b) ==
    IF b = <<>> THEN [entries |-> <<>>, ok |-> FALSE]
    ELSE IF b[1] = 0 THEN [entries |-> <<>>, ok |-> TRUE]
    ELSE IF b[1] \notin {48, 53} \/ Len(b) < 2 \/ Len(b) < 3 + b[2]
              \/ Len(b) < 3 + b[2] + b[3 + b[2]]
         THEN [entries |-> <<>>, ok |-> FALSE]
    ELSE LET nl == b[2]
             dl == b[3 + nl]
             e == Entry(SplitSlash(SubSeq(b, 3, 2 + nl), <<>>), b[1] = 53,
                        SubSeq(b, 4 + nl, 3 + nl + dl))
             rest == TarParse(Drop(b, 3 + nl + dl))
         IN  [entries |-> <<e>> \o rest.entries, ok |-> rest.ok]

\* the zstd frame magic 0xFD2FB528, little-endian
ZstdMagic == <<40, 181, 47, 253>>

\* zstd::encode_all.  Stand-in for the frame: magic, content size, content.
ZstdEncode(raw) == ZstdMagic \o <<Len(raw)>> \o raw

\* zstd::Decoder read to the end: Some(content), or None for a bad frame
ZstdDecode(z) ==
    IF Len(z) >= 5 /\ Take(z, 4) = ZstdMagic /\ Len(z) = 5 + z[5]
    THEN Some(Drop(z, 5)) ELSE None

\* an unpack that writes files and their parents but skips directory entries
UnpackInFilesOnly(f, dst, e) ==
    IF e.path = <<>> \/ e.dir THEN f
    ELSE Put(CreateDirAll(f, Take(dst \o e.path, Len(dst \o e.path) - 1)),
             dst \o e.path, FileNode(e.data))

\* Entry::unpack_in(dst): an entry with a ".." component or with no normal
\* component is skipped; a directory is created with its parents; a file is
\* written (replacing what is there) after its parents are created.
UnpackIn(f, dst, e) ==
    IF e.path = <<>> \/ \E i \in 1..Len(e.path) : e.path[i] = DotDot THEN f
    ELSE LET file_dst == dst \o e.path
         IN  IF e.dir THEN CreateDirAll(f, file_dst)
             ELSE Put(CreateDirAll(f, Take(file_dst, Len(file_dst) - 1)),
                      file_dst, FileNode(e.data))

\* the loop over ar.entries(), first n entries
RECURSIVE UnpackAll(_, _, _, _)
UnpackAll(f, dst, es, n) ==
    IF n = 0 THEN f
    ELSE UnpackIn(UnpackAll(f, dst, es, n - 1), dst, es[n])

----------------------------------------------------------------------------
(* The payload and the container *)

\* encrypt, directory mode (the package of lines 98-102)
PackDirectory(f, input_path) ==
    LET base_name == UnwrapOr(IF FileName(input_path) = None THEN None
                              ELSE ToStr(Unwrap(FileName(input_path))), StrDir)
        zstd_bytes == ZstdEncode(TarBuild(TarEntries(f, base_name, input_path)))
    IN  <<KindDirectory>> \o ToLe(Len(base_name), 2) \o base_name \o zstd_bytes

\* a file package that emits every extension byte after a saturated length
PackFileNoTruncate(f, input_path) ==
    LET ext_bytes == UnwrapOr(IF Extension(input_path) = None THEN None
                              ELSE ToStr(Unwrap(Extension(input_path))), <<>>)
        ext_len == IF Len(ext_bytes) > U16Max THEN U16Max ELSE Len(ext_bytes)
    IN  <<KindFile>> \o ToLe(ext_len, 2) \o ext_bytes \o f[input_path].data

\* encrypt, file mode (the package of lines 116-129)
PackFile(f, input_path) ==
    LET ext_bytes == UnwrapOr(IF Extension(input_path) = None THEN None
                              ELSE ToStr(Unwrap(Extension(input_path))), <<>>)
        ext_len == IF Len(ext_bytes) > U16Max THEN U16Max ELSE Len(ext_bytes)
    IN  <<KindFile>> \o ToLe(ext_len, 2) \o Take(ext_bytes, ext_len)
        \o f[input_path].data

\* a writer that puts the nonce before the salt
EnvelopeNonceFirst(ver, m, t, p, s, n, ct) ==
    MAGIC \o <<ver>> \o ToLe(m, 4) \o ToLe(t, 4) \o ToLe(p, 4) \o n \o s
    \o ToLe(Len(ct), 8) \o ct

\* the bytes encrypt writes, field by field
Envelope(ver, m, t, p, s, n, ct) ==
    MAGIC \o <<ver>> \o ToLe(m, 4) \o ToLe(t, 4) \o ToLe(p, 4) \o s \o n
    \o ToLe(Len(ct), 8) \o ct

\* a default that appends ".jj" to the whole file name
EncryptOutputPathAppend(input, output) ==
    IF output # None THEN Unwrap(output)
    ELSE [input EXCEPT ![Len(input)] = input[Len(input)] \o <<ChDot>> \o StrJj]

\* the default output path of encrypt
EncryptOutputPath(input, output) ==
    IF output # None THEN Unwrap(output) ELSE SetExtension(input, StrJj)

\* the default output path of decrypt for a file payload
DecryptOutputPath(input, output, org_ext) ==
    IF output # None THEN Unwrap(output)
    ELSE LET stem == UnwrapOr(FileStem(input), StrOutput)
             parent == UnwrapOr(Parent(input), <<>>)
             ext_for_out == IF org_ext = <<>> THEN StrOut ELSE org_ext
         IN  SetExtension(Join(parent, stem), ext_for_out)

----------------------------------------------------------------------------
(* Bounds and inputs *)

\* longest content of the input file
MaxData == 1
\* the byte values of file contents
DataBytes == {0, 255}

SeqsUpTo(S, n) == UNION {[1..k -> S] : k \in 0..n}
Datas == SeqsUpTo(DataBytes, MaxData)

\* "a.t", "n", "a.b.t", and "a." followed by a non-UTF-8 byte
NmAT == <<97, 46, 116>>
NmN == <<110>>
NmABT == <<97, 46, 98, 46, 116>>
NmABad == <<97, 46, 255>>
\* "a.b.jj"
NmABJ == <<97, 46, 98, 46, 106, 106>>
\* "d", "e", "f", "g", "s", "o", "c.jj", "m"
NmD == <<100>>
NmE == <<101>>
NmF == <<102>>
NmG == <<103>>
NmS == <<115>>
NmO == <<111>>
NmC == <<99, 46, 106, 106>>
NmM == <<109>>
\* a directory name that is not UTF-8
NmDBad == <<255>>

FileNames == {NmAT, NmN, NmABT, NmABad}

\* the passwords a user may type: "p", "q"
Passwords == {<<112>>, <<113>>}

\* the command line's defaults (m_cost_kib, t_cost, p_cost), another valid
\* triple and an invalid one (zero parallelism)
DefaultCosts == [m_cost_kib |-> 19456, t_cost |-> 2, p_cost |-> 1]
OtherCosts == [m_cost_kib |-> 64, t_cost |-> 3, p_cost |-> 2]
BadCosts == [m_cost_kib |-> 19456, t_cost |-> 2, p_cost |-> 0]
CostChoices == {DefaultCosts, OtherCosts, BadCosts}

\* what the random source may return
Salts == {[i \in 1..SaltLen |-> 160 + i]}
Nonces == {[i \in 1..NonceLen |-> 200 + i]}

\* an existing file at the explicit output path
OldOutput == FileNode(<<9>>)

FileWorlds ==
    {Put(Put(<<>>, <<nm>>, FileNode(d)), <<NmO>>, OldOutput) :
        nm \in FileNames, d \in Datas}

\* an empty directory; a nested tree with an empty file and an empty
\* subdirectory; a directory whose name is not UTF-8
TreeEmpty == Put(<<>>, <<NmD>>, DirNode)
TreeNested ==
    Put(Put(Put(Put(Put(<<>>, <<NmD>>, DirNode),
        <<NmD, NmF>>, FileNode(<<7>>)),
        <<NmD, NmS>>, DirNode),
        <<NmD, NmS, NmG>>, FileNode(<<>>)),
        <<NmD, NmE>>, DirNode)
TreeBadName == Put(Put(<<>>, <<NmDBad>>, DirNode), <<NmDBad, NmF>>, FileNode(<<7>>))
DirWorlds == {TreeEmpty, TreeNested, TreeBadName}

\* Containers that this encrypt did not write: from the version-1 writer,
\* from a writer that knows the password "p" and seals a payload of its
\* choice, and headers that are damaged.
ForgeKey ==
    Argon2id(<<112>>, Zeros(SaltLen), DefaultCosts.m_cost_kib,
             DefaultCosts.t_cost, DefaultCosts.p_cost)
Forge(ver, payload) ==
    Envelope(ver, DefaultCosts.m_cost_kib, DefaultCosts.t_cost,
             DefaultCosts.p_cost, Zeros(SaltLen), Zeros(NonceLen),
             Seal(ForgeKey, Zeros(NonceLen), payload))

\* the version-1 payload: ext_len, ext, data
LegacyPayload(ext, d) == ToLe(Len(ext), 2) \o ext \o d
\* the version-2 payload: kind, len, name or extension, data
TaggedPayload(kind, name, d) == <<kind>> \o ToLe(Len(name), 2) \o name \o d

LegacyExts == {<<>>, <<116>>, <<255>>}
LegacyContainers ==
    {Forge(1, LegacyPayload(e, d)) : e \in LegacyExts, d \in Datas}

\* version-2 containers sealing the File payload of the same e and d
TaggedFileContainers ==
    {Forge(VERSION, TaggedPayload(KindFile, e, d)) : e \in LegacyExts, d \in Datas}

\* payloads too short for their declared fields; kinds other than 0 and 1,
\* before a file's bytes, and before the archive of a directory; a Directory
\* payload whose archive holds one file entry named "c.jj", as the container
OddPayloads ==
    {<<>>, <<5>>, <<2, 0, 116>>, <<0>>, <<0, 1>>, <<0, 1, 0>>, <<1, 1, 0, 100>>,
     TaggedPayload(2, <<116>>, <<7>>), TaggedPayload(1, NmD, <<1, 2>>),
     TaggedPayload(KindDirectory, NmD,
                   ZstdEncode(TarBuild(<<Entry(<<NmC>>, FALSE, <<7>>)>>)))}
    \cup {<<k>> \o Drop(PackDirectory(TreeNested, <<NmD>>), 1) : k \in {2, 255}}
OddContainers == {Forge(v, q) : v \in {1, VERSION}, q \in OddPayloads}

\* a header field by field, with what follows the ct_len field
RawHeader(magic, ver, ct_len, rest) ==
    magic \o <<ver>> \o ToLe(DefaultCosts.m_cost_kib, 4)
    \o ToLe(DefaultCosts.t_cost, 4) \o ToLe(DefaultCosts.p_cost, 4)
    \o Zeros(SaltLen) \o Zeros(NonceLen) \o ct_len \o rest

BadMagicBytes == <<74, 74, 84, 79, 79, 75>>
DamagedContainers ==
    {Forge(v, TaggedPayload(KindFile, <<116>>, <<7>>)) : v \in {0, 3, 255}}
    \cup {RawHeader(BadMagicBytes, v, ToLe(0, 8), <<>>) : v \in {VERSION, 3}}
    \cup {RawHeader(MAGIC, VERSION, b, <<1, 2, 3>>) :
            b \in {<<0, 0, 0, 0, 0, 0, 0, 128>>, <<0, 0, 0, 1, 0, 0, 0, 0>>,
                    <<4, 0, 0, 0, 0, 0, 0, 0>>, <<3, 0, 0, 0, 0, 0, 0, 0>>}}

\* cost triples Params::new rejects: no lanes, no passes, less than 8 KiB,
\* less than 8 KiB per lane
InvalidCosts ==
    {BadCosts,
     [m_cost_kib |-> 19456, t_cost |-> 0, p_cost |-> 1],
     [m_cost_kib |-> 7, t_cost |-> 2, p_cost |-> 1],
     [m_cost_kib |-> 15, t_cost |-> 2, p_cost |-> 2]}
\* well-sealed containers whose header carries an invalid cost triple
InvalidCostContainers ==
    {Envelope(VERSION, c.m_cost_kib, c.t_cost, c.p_cost, Zeros(SaltLen),
              Zeros(NonceLen),
              Seal(ForgeKey, Zeros(NonceLen),
                   TaggedPayload(KindFile, <<116>>, <<7>>))) : c \in InvalidCosts}

\* version-2 containers sealing the archive of a directory "d" under another
\* stored base name: none, "e", a name that is not UTF-8
RenamedDirContainers ==
    {Forge(VERSION,
           TaggedPayload(KindDirectory, nm,
                         Drop(PackDirectory(TreeNested, <<NmD>>), 3 + Len(NmD)))) :
        nm \in {<<>>, NmE, NmDBad}}

ForgedWorlds ==
    {Put(<<>>, <<NmC>>, FileNode(c)) :
        c \in LegacyContainers \cup TaggedFileContainers \cup OddContainers
              \cup DamagedContainers \cup InvalidCostContainers
              \cup RenamedDirContainers}
    \cup {Put(<<>>, <<NmABJ>>, FileNode(Forge(1, LegacyPayload(<<116>>, <<7>>))))}

----------------------------------------------------------------------------
(* Results *)

NoResult == [tag |-> "none", kind |-> "", msg |-> ""]
Ok == [tag |-> "ok", kind |-> "", msg |-> ""]
\* Err(anyhow::Error): the kind is the spec's error class, msg the message
Err(kind, msg) == [tag |-> "err", kind |-> kind, msg |-> msg]
\* a panic (Result::unwrap on Err, capacity overflow) unwinds out of main
Panic(msg) == [tag |-> "panic", kind |-> "", msg |-> msg]
\* handle_alloc_error aborts the process
Abort(msg) == [tag |-> "abort", kind |-> "", msg |-> msg]

----------------------------------------------------------------------------
VARIABLES
    scn,            \* the family of inputs explored (fixed in a behaviour)
    stage,          \* "start", "enc", "tampered", "dec": what happened last
    fs,             \* the filesystem
    fs0,            \* the filesystem when the current invocation started
    op,             \* "idle", "encrypt", "decrypt"
    pc,             \* the step the invocation is at
    a,              \* EncryptArgs / DecryptArgs
    output_path,    \* the resolved output path or extraction root
    password,       \* the password buffer
    key,            \* the derived-key buffer
    salt,
    nonce_bytes,
    pkg,            \* the plaintext payload
    ciphertext,
    r,              \* decrypt: what is left of the input stream
    hdr,            \* decrypt: payload_version, m_cost_kib, t_cost, p_cost
    org_ext,        \* decrypt: the recovered extension
    data,           \* decrypt: the payload after the extension / base name
    result,         \* what the invocation returned
    trace,          \* the steps the invocation has taken, in order
    typed,          \* the password the user typed in this invocation
    sealed,         \* what the last completed encrypt sealed
    obs             \* packaging alone: the input tried and what came back

vars == <<scn, stage, fs, fs0, op, pc, a, output_path, password, key, salt,
          nonce_bytes, pkg, ciphertext, r, hdr, org_ext, data, result, trace,
          typed, sealed, obs>>

secrets == <<password, key>>
envl == <<salt, nonce_bytes, pkg, ciphertext>>
dec == <<r, hdr, org_ext, data>>
ghost == <<scn, obs, stage, fs0, typed, sealed>>
call == <<op, a, output_path>>

NoHdr == [payload_version |-> 0, m_cost_kib |-> 0, t_cost |-> 0, p_cost |-> 0]
NoSealed ==
    [pw |-> <<>>, input |-> <<>>, directory |-> FALSE, out |-> <<>>,
     costs |-> DefaultCosts, salt |-> <<>>, nonce |-> <<>>, pkg |-> <<>>,
     container |-> <<>>, before |-> <<>>]
NoObs == [probe |-> <<>>]
NoArgs ==
    [input |-> <<>>, output |-> None, directory |-> FALSE,
     m_cost_kib |-> 0, t_cost |-> 0, p_cost |-> 0]

\* "main": every world, no tampering; "tamper": files with and without an
\* extension and one directory, encrypted under the default costs, then the
\* stored container changed;
\* "pack": nothing on disk, the inputs are built for the packaging step;
\* "live": the worlds of "tamper", damaged headers and a legacy container,
\* under every choice of costs and output
TamperWorlds ==
    {Put(<<>>, <<NmAT>>, FileNode(<<0>>)), Put(<<>>, <<NmN>>, FileNode(<<>>)),
     Put(<<>>, <<NmN>>, FileNode(<<7>>)), TreeEmpty}
Worlds(sc) ==
    IF sc = "tamper" THEN TamperWorlds
    ELSE IF sc = "pack" THEN {<<>>}
    ELSE IF sc = "live"
    THEN TamperWorlds
         \cup {Put(<<>>, <<NmC>>, FileNode(c)) :
                 c \in DamagedContainers
                       \cup {Forge(1, LegacyPayload(<<116>>, <<0>>))}}
    ELSE FileWorlds \cup DirWorlds \cup ForgedWorlds
CostsOf(sc) == IF sc = "tamper" THEN {DefaultCosts} ELSE CostChoices
OutputsOf(sc) == IF sc = "tamper" THEN {None} ELSE {None, Some(<<NmO>>)}
\* decrypt is also given an output whose parent does not exist: "m/e"
DecryptOutputsOf(sc) ==
    IF sc = "tamper" THEN {None} ELSE {None, Some(<<NmO>>), Some(<<NmM, NmE>>)}

InitWith(sc) ==
    /\ scn = sc
    /\ stage = "start"
    /\ fs \in Worlds(sc)
    /\ fs0 = fs
    /\ op = "idle"
    /\ pc = "idle"
    /\ a = NoArgs
    /\ output_path = <<>>
    /\ password = <<>>
    /\ key = <<>>
    /\ salt = <<>>
    /\ nonce_bytes = <<>>
    /\ pkg = <<>>
    /\ ciphertext = <<>>
    /\ r = <<>>
    /\ hdr = NoHdr
    /\ org_ext = <<>>
    /\ data = <<>>
    /\ result = NoResult
    /\ trace = <<>>
    /\ typed = <<>>
    /\ sealed = NoSealed
    /\ obs = NoObs

Init == InitWith("main")

Idle == pc \in {"idle", "done"}

\* a step that ends the invocation with res
Finish(res) == pc' = "done" /\ result' = res
\* a step that goes on to the step nxt
Goto(nxt) == pc' = nxt /\ result' = result
Did(ev) == trace' = Append(trace, ev)

\* the top-level entries an invocation may be pointed at
TopLevel(f) == {q \in DOMAIN f : Len(q) = 1}

----------------------------------------------------------------------------
(* encrypt *)

\* lines 46-52: the arguments and the output path
StartEncrypt ==
    /\ Idle /\ stage = "start"
    /\ \E input \in TopLevel(fs) \ {<<NmO>>}, output \in OutputsOf(scn),
          directory \in BOOLEAN, c \in CostsOf(scn) :
        /\ a' = [input |-> input, output |-> output, directory |-> directory,
                 m_cost_kib |-> c.m_cost_kib, t_cost |-> c.t_cost,
                 p_cost |-> c.p_cost]
        /\ output_path' = EncryptOutputPath(input, output)
    /\ op' = "encrypt"
    /\ Goto("e_prompt")
    /\ fs0' = fs
    /\ trace' = <<>>
    /\ password' = <<>> /\ key' = <<>>
    /\ salt' = <<>> /\ nonce_bytes' = <<>> /\ pkg' = <<>> /\ ciphertext' = <<>>
    /\ typed' = <<>>
    /\ stage' = "enc"
    /\ UNCHANGED <<scn, obs, fs, sealed, dec>>

\* an encrypt that creates its output file before it asks for the password
EncPromptCreating ==
    /\ op = "encrypt" /\ pc = "e_prompt"
    /\ Did("prompt")
    /\ fs' = Put(fs, output_path, FileNode(<<>>))
    /\ \E got \in {None} \cup {Some(pw) : pw \in Passwords} :
        IF got = None
        THEN /\ Finish(Err("IoError", "prompt"))
             /\ UNCHANGED <<password, typed>>
        ELSE /\ password' = Unwrap(got)
             /\ typed' = Unwrap(got)
             /\ Goto("e_params")
    /\ UNCHANGED <<scn, obs, stage, fs0, sealed, call, key, envl, dec>>

\* line 55: rpassword::prompt_password
EncPrompt ==
    /\ op = "encrypt" /\ pc = "e_prompt"
    /\ Did("prompt")
    /\ \E got \in {None} \cup {Some(pw) : pw \in Passwords} :
        IF got = None
        THEN /\ Finish(Err("IoError", "prompt"))
             /\ UNCHANGED <<password, typed>>
        ELSE /\ password' = Unwrap(got)
             /\ typed' = Unwrap(got)
             /\ Goto("e_params")
    /\ UNCHANGED <<scn, obs, stage, fs, fs0, sealed, call, key, envl, dec>>

\* lines 56-58: Params::new
EncParams ==
    /\ op = "encrypt" /\ pc = "e_params"
    /\ Did("params")
    /\ IF ParamsValid(a.m_cost_kib, a.t_cost, a.p_cost)
       THEN Goto("e_salt")
       ELSE Finish(Err("ConfigError", "invalid Argon2 params"))
    /\ UNCHANGED <<ghost, fs, call, secrets, envl, dec>>

\* lines 61-62: the salt from OsRng
EncSalt ==
    /\ op = "encrypt" /\ pc = "e_salt"
    /\ Did("salt")
    /\ \E got \in {None} \cup {Some(s) : s \in Salts} :
        IF got = None
        THEN /\ Finish(Err("RngError", "rng"))
             /\ salt' = Zeros(SaltLen)
        ELSE /\ salt' = Unwrap(got)
             /\ Goto("e_kdf")
    /\ UNCHANGED <<ghost, fs, call, secrets, nonce_bytes, pkg, ciphertext, dec>>

\* lines 63-66: Argon2::hash_password_into
EncKdf ==
    /\ op = "encrypt" /\ pc = "e_kdf"
    /\ Did("kdf")
    /\ \E ok \in BOOLEAN :
        IF ok
        THEN /\ key' = Argon2id(password, salt, a.m_cost_kib, a.t_cost, a.p_cost)
             /\ Goto("e_nonce")
        ELSE /\ key' = Zeros(KeyLen)
             /\ Finish(Err("CryptoError", "argon2 key derivation failed"))
    /\ UNCHANGED <<ghost, fs, call, password, envl, dec>>

\* lines 69-72: the cipher and the nonce from OsRng
EncNonce ==
    /\ op = "encrypt" /\ pc = "e_nonce"
    /\ Did("nonce")
    /\ \E got \in {None} \cup {Some(n) : n \in Nonces} :
        IF got = None
        THEN /\ Finish(Err("RngError", "rng"))
             /\ nonce_bytes' = Zeros(NonceLen)
        ELSE /\ nonce_bytes' = Unwrap(got)
             /\ Goto("e_pack")
    /\ UNCHANGED <<ghost, fs, call, secrets, salt, pkg, ciphertext, dec>>

\* a validation that does not look at the length of the base name
PackageErrorAnyLength(f, input_path, directory) ==
    IF directory
    THEN IF ~IsDir(f, input_path)
         THEN Err("IoError", "input is not a directory")
         ELSE NoResult
    ELSE IF ~IsFile(f, input_path)
         THEN Err("IoError", "input is not a file")
         ELSE NoResult

\* lines 76-84 and 105: what the input is rejected with before anything is
\* read, NoResult when it is accepted
PackageError(f, input_path, directory) ==
    IF directory
    THEN IF ~IsDir(f, input_path)
         THEN Err("IoError", "input is not a directory")
         ELSE IF FileName(input_path) # None
                 /\ ToStr(Unwrap(FileName(input_path))) # None
                 /\ Len(Unwrap(FileName(input_path))) > U16Max
         THEN Err("ConfigError", "base dir name too long")
         ELSE NoResult
    ELSE IF ~IsFile(f, input_path)
         THEN Err("IoError", "input is not a file")
         ELSE NoResult

\* lines 75-133: the package.  io says whether reading the input (the file,
\* or the tree for tar) and compressing succeed.
EncPack ==
    /\ op = "encrypt" /\ pc = "e_pack"
    /\ Did("pack")
    /\ \E io \in {"ok", "read", "zstd"} :
        IF PackageError(fs, a.input, a.directory) # NoResult
        THEN /\ io = "ok"
             /\ Finish(PackageError(fs, a.input, a.directory))
             /\ pkg' = pkg
        ELSE IF a.directory
        THEN IF io = "read"
             THEN /\ Finish(Err("IoError", "tar"))
                  /\ pkg' = pkg
             ELSE IF io = "zstd"
             THEN /\ Finish(Err("IoError", "zstd encode failed"))
                  /\ pkg' = pkg
             ELSE /\ pkg' = PackDirectory(fs, a.input)
                  /\ Goto("e_seal")
        ELSE IF io = "read"
             THEN /\ Finish(Err("IoError", "read"))
                  /\ pkg' = pkg
             ELSE /\ io = "ok"
                  /\ pkg' = PackFile(fs, a.input)
                  /\ Goto("e_seal")
    /\ UNCHANGED <<ghost, fs, call, secrets, salt, nonce_bytes, ciphertext, dec>>

\* line 136: cipher.encrypt(..).unwrap()
EncSeal ==
    /\ op = "encrypt" /\ pc = "e_seal"
    /\ Did("seal")
    /\ ciphertext' = Seal(key, nonce_bytes, pkg)
    /\ Goto("e_zeroize")
    /\ UNCHANGED <<ghost, fs, call, secrets, salt, nonce_bytes, pkg, dec>>

\* a zeroize that forgets the key
EncZeroizePassword ==
    /\ op = "encrypt" /\ pc = "e_zeroize"
    /\ Did("zeroize")
    /\ password' = Zeros(Len(password))
    /\ key' = key
    /\ Goto("e_create")
    /\ UNCHANGED <<ghost, fs, call, envl, dec>>

\* lines 139-140: password.zeroize(); key.zeroize()
EncZeroize ==
    /\ op = "encrypt" /\ pc = "e_zeroize"
    /\ Did("zeroize")
    /\ password' = Zeros(Len(password))
    /\ key' = Zeros(Len(key))
    /\ Goto("e_create")
    /\ UNCHANGED <<ghost, fs, call, envl, dec>>

\* lines 143-145: File::create(&output_path) creates or truncates
EncCreate ==
    /\ op = "encrypt" /\ pc = "e_create"
    /\ Did("create")
    /\ \E ok \in BOOLEAN :
        IF ok /\ CanCreate(fs, output_path)
        THEN /\ fs' = Put(fs, output_path, FileNode(<<>>))
             /\ Goto("e_write")
        ELSE /\ fs' = fs
             /\ Finish(Err("IoError", "create"))
    /\ UNCHANGED <<ghost, call, secrets, envl, dec>>

\* where a failed write may stop
WriteCuts(bytes) == {0, Len(MAGIC), HeaderLen} \cap 0..(Len(bytes) - 1)

\* lines 146-157: the header fields, the ciphertext, flush
EncWrite ==
    /\ op = "encrypt" /\ pc = "e_write"
    /\ Did("write")
    /\ LET bytes == Envelope(VERSION, a.m_cost_kib, a.t_cost, a.p_cost, salt,
                             nonce_bytes, ciphertext)
       IN  \E n \in WriteCuts(bytes) \cup {Len(bytes)} :
            /\ fs' = Put(fs, output_path, FileNode(Take(bytes, n)))
            /\ IF n = Len(bytes)
               THEN /\ Finish(Ok)
                    /\ sealed' = [pw |-> typed, input |-> a.input,
                                  directory |-> a.directory, out |-> output_path,
                                  costs |-> [m_cost_kib |-> a.m_cost_kib,
                                             t_cost |-> a.t_cost,
                                             p_cost |-> a.p_cost],
                                  salt |-> salt, nonce |-> nonce_bytes,
                                  pkg |-> pkg, container |-> bytes,
                                  before |-> fs0]
               ELSE /\ Finish(Err("IoError", "write"))
                    /\ UNCHANGED sealed
    /\ UNCHANGED <<scn, obs, stage, fs0, typed, call, secrets, envl, dec>>

----------------------------------------------------------------------------
(* decrypt *)

\* lines 160-161: the arguments
StartDecrypt ==
    /\ Idle /\ stage \in {"start", "enc", "tampered"}
    /\ \E input \in TopLevel(fs) \cup {<<NmM>>}, output \in DecryptOutputsOf(scn) :
        a' = [NoArgs EXCEPT !.input = input, !.output = output]
    /\ op' = "decrypt"
    /\ Goto("d_open")
    /\ stage' = "dec"
    /\ fs0' = fs
    /\ trace' = <<>>
    /\ output_path' = <<>>
    /\ password' = <<>> /\ key' = <<>>
    /\ salt' = <<>> /\ nonce_bytes' = <<>> /\ pkg' = <<>> /\ ciphertext' = <<>>
    /\ r' = <<>> /\ hdr' = NoHdr /\ org_ext' = <<>> /\ data' = <<>>
    /\ typed' = <<>>
    /\ UNCHANGED <<scn, obs, fs, sealed>>

\* Read::read_exact on the rest of the stream: "failed to fill whole buffer"
Truncated == Err("Truncated", "failed to fill whole buffer")

\* lines 164-166: File::open(input_path); reading a directory fails
DecOpen ==
    /\ op = "decrypt" /\ pc = "d_open"
    /\ Did("open")
    /\ IF IsFile(fs, a.input)
       THEN /\ r' = fs[a.input].data
            /\ Goto("d_magic")
       ELSE /\ r' = r
            /\ Finish(Err("IoError", "open"))
    /\ UNCHANGED <<ghost, fs, call, secrets, envl, hdr, org_ext, data>>

\* lines 168-172
DecMagic ==
    /\ op = "decrypt" /\ pc = "d_magic"
    /\ Did("magic")
    /\ IF Len(r) < Len(MAGIC)
       THEN Finish(Truncated) /\ r' = r
       ELSE IF Take(r, Len(MAGIC)) # MAGIC
       THEN Finish(Err("BadMagic", "wrong magic")) /\ r' = r
       ELSE Goto("d_version") /\ r' = Drop(r, Len(MAGIC))
    /\ UNCHANGED <<ghost, fs, call, secrets, envl, hdr, org_ext, data>>

\* a version check that knows the current version only
VersionSupportedCurrent(v) == v = VERSION

\* a version check that lets the next version through
VersionSupportedLax(v) == v = 1 \/ v = VERSION \/ v = VERSION + 1

VersionSupported(v) == v = 1 \/ v = VERSION

\* lines 174-179
DecVersion ==
    /\ op = "decrypt" /\ pc = "d_version"
    /\ Did("version")
    /\ IF Len(r) < 1
       THEN Finish(Truncated) /\ UNCHANGED <<r, hdr>>
       ELSE IF ~VersionSupported(r[1])
       THEN Finish(Err("UnsupportedVersion", "unsupported version"))
            /\ UNCHANGED <<r, hdr>>
       ELSE /\ Goto("d_costs")
            /\ hdr' = [hdr EXCEPT !.payload_version = r[1]]
            /\ r' = Drop(r, 1)
    /\ UNCHANGED <<ghost, fs, call, secrets, envl, org_ext, data>>

\* lines 181-183 and 305-309: three read_u32
DecCosts ==
    /\ op = "decrypt" /\ pc = "d_costs"
    /\ Did("costs")
    /\ IF Len(r) < 12
       THEN Finish(Truncated) /\ UNCHANGED <<r, hdr>>
       ELSE /\ Goto("d_salt")
            /\ hdr' = [hdr EXCEPT !.m_cost_kib = FromLe(SubSeq(r, 1, 4)),
                                  !.t_cost = FromLe(SubSeq(r, 5, 8)),
                                  !.p_cost = FromLe(SubSeq(r, 9, 12))]
            /\ r' = Drop(r, 12)
    /\ UNCHANGED <<ghost, fs, call, secrets, envl, org_ext, data>>

\* lines 185-188: salt and nonce
DecSaltNonce ==
    /\ op = "decrypt" /\ pc = "d_salt"
    /\ Did("salt")
    /\ IF Len(r) < SaltLen
       THEN Finish(Truncated) /\ UNCHANGED <<r, salt, nonce_bytes>>
       ELSE IF Len(r) < SaltLen + NonceLen
       THEN /\ Finish(Truncated)
            /\ salt' = Take(r, SaltLen)
            /\ UNCHANGED <<r, nonce_bytes>>
       ELSE /\ Goto("d_ciphertext")
            /\ salt' = Take(r, SaltLen)
            /\ nonce_bytes' = SubSeq(r, SaltLen + 1, SaltLen + NonceLen)
            /\ r' = Drop(r, SaltLen + NonceLen)
    /\ UNCHANGED <<ghost, fs, call, secrets, pkg, ciphertext, hdr, org_ext, data>>

\* A u64 as its 8 little-endian bytes: above isize::MAX, and above what
\* the model's streams and memory hold (2^24 bytes)
U64AboveIsizeMax(b) == b[8] >= 128
U64Large(b) == \E i \in 4..8 : b[i] # 0
U64Low(b) == FromLe(SubSeq(b, 1, 3))

\* a reader that wants the stream to end with the ciphertext
DecCiphertextToEnd ==
    /\ op = "decrypt" /\ pc = "d_ciphertext"
    /\ Did("ciphertext")
    /\ IF Len(r) < 8 \/ U64Large(Take(r, 8))
          \/ Len(r) - 8 # U64Low(Take(r, 8))
       THEN Finish(Truncated) /\ UNCHANGED <<r, ciphertext>>
       ELSE /\ Goto("d_prompt")
            /\ ciphertext' = Drop(r, 8)
            /\ r' = <<>>
    /\ UNCHANGED <<ghost, fs, call, secrets, salt, nonce_bytes, pkg, hdr,
                   org_ext, data>>

\* lines 191-193 and 311-315: read_u64, vec![0u8; ct_len], read_exact.
\* A vector longer than isize::MAX panics with "capacity overflow"; one the
\* allocator refuses aborts; one it grants is filled from the stream.
DecCiphertext ==
    /\ op = "decrypt" /\ pc = "d_ciphertext"
    /\ Did("ciphertext")
    /\ \E granted \in BOOLEAN :
        IF Len(r) < 8
        THEN granted /\ Finish(Truncated) /\ UNCHANGED <<r, ciphertext>>
        ELSE LET ct_len == Take(r, 8)
                 rest == Drop(r, 8)
             IN  IF U64AboveIsizeMax(ct_len)
                 THEN /\ granted
                      /\ Finish(Panic("capacity overflow"))
                      /\ UNCHANGED <<r, ciphertext>>
                 ELSE IF U64Large(ct_len)
                 THEN /\ IF granted THEN Finish(Truncated)
                         ELSE Finish(Abort("memory allocation failed"))
                      /\ UNCHANGED <<r, ciphertext>>
                 ELSE IF Len(rest) < U64Low(ct_len)
                 THEN /\ granted
                      /\ Finish(Truncated)
                      /\ UNCHANGED <<r, ciphertext>>
                 ELSE /\ granted
                      /\ Goto("d_prompt")
                      /\ ciphertext' = Take(rest, U64Low(ct_len))
                      /\ r' = Drop(rest, U64Low(ct_len))
    /\ UNCHANGED <<ghost, fs, call, secrets, salt, nonce_bytes, pkg, hdr,
                   org_ext, data>>

\* a decrypt that starts over when the prompt fails
DecPromptRetry ==
    /\ op = "decrypt" /\ pc = "d_prompt"
    /\ \E got \in {None} \cup {Some(pw) : pw \in Passwords} :
        IF got = None
        THEN /\ Goto("d_open")
             /\ trace' = <<>>
             /\ UNCHANGED <<password, typed>>
        ELSE /\ Did("prompt")
             /\ password' = Unwrap(got)
             /\ typed' = Unwrap(got)
             /\ Goto("d_params")
    /\ UNCHANGED <<scn, obs, stage, fs, fs0, sealed, call, key, envl, dec>>

\* line 196: rpassword::prompt_password
DecPrompt ==
    /\ op = "decrypt" /\ pc = "d_prompt"
    /\ Did("prompt")
    /\ \E got \in {None} \cup {Some(pw) : pw \in Passwords} :
        IF got = None
        THEN /\ Finish(Err("IoError", "prompt"))
             /\ UNCHANGED <<password, typed>>
        ELSE /\ password' = Unwrap(got)
             /\ typed' = Unwrap(got)
             /\ Goto("d_params")
    /\ UNCHANGED <<scn, obs, stage, fs, fs0, sealed, call, key, envl, dec>>

\* lines 197-198: Params::new on the header's costs
DecParams ==
    /\ op = "decrypt" /\ pc = "d_params"
    /\ Did("params")
    /\ IF ParamsValid(hdr.m_cost_kib, hdr.t_cost, hdr.p_cost)
       THEN Goto("d_kdf")
       ELSE Finish(Err("ConfigError", "invalid Argon2 params"))
    /\ UNCHANGED <<ghost, fs, call, secrets, envl, dec>>

\* a derivation under the command line's default costs, not the header's
DecKdfDefaultCosts ==
    /\ op = "decrypt" /\ pc = "d_kdf"
    /\ Did("kdf")
    /\ \E ok \in BOOLEAN :
        IF ok
        THEN /\ key' = Argon2id(password, salt, DefaultCosts.m_cost_kib,
                                DefaultCosts.t_cost, DefaultCosts.p_cost)
             /\ Goto("d_aead")
        ELSE /\ key' = Zeros(KeyLen)
             /\ Finish(Err("CryptoError", "argon2 key derivation failed"))
    /\ UNCHANGED <<ghost, fs, call, password, envl, dec>>

\* lines 200-203: Argon2::hash_password_into
DecKdf ==
    /\ op = "decrypt" /\ pc = "d_kdf"
    /\ Did("kdf")
    /\ \E ok \in BOOLEAN :
        IF ok
        THEN /\ key' = Argon2id(password, salt, hdr.m_cost_kib, hdr.t_cost,
                                hdr.p_cost)
             /\ Goto("d_aead")
        ELSE /\ key' = Zeros(KeyLen)
             /\ Finish(Err("CryptoError", "argon2 key derivation failed"))
    /\ UNCHANGED <<ghost, fs, call, password, envl, dec>>

\* what cipher.decrypt(..).unwrap() does with an aead::Error
OpenFailed == Panic("called Result::unwrap() on an Err value: Error")

\* lines 206-208: cipher.decrypt(&nonce, ciphertext).unwrap()
DecAead ==
    /\ op = "decrypt" /\ pc = "d_aead"
    /\ Did("aead")
    /\ LET opened == Open(key, nonce_bytes, ciphertext)
       IN  IF opened = None
           THEN Finish(OpenFailed) /\ pkg' = pkg
           ELSE Goto("d_zeroize") /\ pkg' = Unwrap(opened)
    /\ UNCHANGED <<ghost, fs, call, secrets, salt, nonce_bytes, ciphertext, dec>>

\* lines 211-212
DecZeroize ==
    /\ op = "decrypt" /\ pc = "d_zeroize"
    /\ Did("zeroize")
    /\ password' = Zeros(Len(password))
    /\ key' = Zeros(Len(key))
    /\ Goto("d_unpack")
    /\ UNCHANGED <<ghost, fs, call, envl, dec>>

TruncatedPayload == Err("Truncated", "truncated payload")

\* the least payload length the legacy path accepts (lines 216, 218)
LegacyMinLen(ext_len) == 2 + ext_len
\* a check of the fixed fields alone, whatever length they declare
TaggedMinLenFixed(len) == 1 + 2
\* the least payload length the File and Directory paths accept (lines 250, 277)
TaggedMinLen(len) == 3 + len + 1

\* &s[lo..hi] and &s[lo..] panic unless lo <= hi <= s.len()
SliceInRange(s, lo, hi) == lo <= hi /\ hi <= Len(s)
SlicePanic == Panic("range end index out of range for slice")

\* lines 215-232, 244-266, 275-293: the fields of the payload and where the
\* output goes
DecUnpack ==
    /\ op = "decrypt" /\ pc = "d_unpack"
    /\ Did("unpack")
    /\ IF hdr.payload_version = 1
       THEN IF Len(pkg) < 2 \/ Len(pkg) < LegacyMinLen(FromLe(Take(pkg, 2)))
            THEN Finish(TruncatedPayload) /\ UNCHANGED <<org_ext, data, output_path>>
            ELSE IF ~SliceInRange(pkg, 2, 2 + FromLe(Take(pkg, 2)))
            THEN Finish(SlicePanic) /\ UNCHANGED <<org_ext, data, output_path>>
            ELSE LET ext_len == FromLe(Take(pkg, 2))
                 IN  /\ org_ext' = FromUtf8Lossy(SubSeq(pkg, 3, 2 + ext_len))
                     /\ data' = Drop(pkg, 2 + ext_len)
                     /\ output_path' = DecryptOutputPath(a.input, a.output, org_ext')
                     /\ Goto("d_create")
       ELSE IF Len(pkg) < 1 \/ Len(pkg) < 1 + 2
                \/ Len(pkg) < TaggedMinLen(FromLe(SubSeq(pkg, 2, 3)))
            THEN Finish(TruncatedPayload) /\ UNCHANGED <<org_ext, data, output_path>>
            ELSE IF ~SliceInRange(pkg, 3, 3 + FromLe(SubSeq(pkg, 2, 3)))
            THEN Finish(SlicePanic) /\ UNCHANGED <<org_ext, data, output_path>>
            ELSE LET len == FromLe(SubSeq(pkg, 2, 3))
                 IN  IF pkg[1] = KindFile
                     THEN /\ org_ext' = FromUtf8Lossy(SubSeq(pkg, 4, 3 + len))
                          /\ data' = Drop(pkg, 3 + len)
                          /\ output_path' =
                                DecryptOutputPath(a.input, a.output, org_ext')
                          /\ Goto("d_create")
                     ELSE /\ org_ext' = org_ext
                          /\ data' = Drop(pkg, 3 + len)
                          /\ output_path' =
                                IF a.output # None THEN Unwrap(a.output)
                                ELSE UnwrapOr(Parent(a.input), <<>>)
                          /\ Goto("d_root")
    /\ UNCHANGED <<ghost, fs, op, a, secrets, envl, r, hdr>>

\* lines 234-237, 268-271: File::create(&output_path)
DecCreate ==
    /\ op = "decrypt" /\ pc = "d_create"
    /\ Did("create")
    /\ \E ok \in BOOLEAN :
        IF ok /\ CanCreate(fs, output_path)
        THEN /\ fs' = Put(fs, output_path, FileNode(<<>>))
             /\ Goto("d_write")
        ELSE /\ fs' = fs
             /\ Finish(Err("IoError", "create"))
    /\ UNCHANGED <<ghost, call, secrets, envl, dec>>

\* lines 238-240, 272-273: write_all(file_bytes), flush
DecWrite ==
    /\ op = "decrypt" /\ pc = "d_write"
    /\ Did("write")
    /\ \E n \in {0, Len(data)} :
        /\ fs' = Put(fs, output_path, FileNode(Take(data, n)))
        /\ \E ok \in BOOLEAN :
            /\ ok = (n = Len(data))
            /\ IF ok THEN Finish(Ok) ELSE Finish(Err("IoError", "write"))
    /\ UNCHANGED <<ghost, call, secrets, envl, dec>>

\* an extraction into a folder named by the payload's base name
DecRootNamed ==
    /\ op = "decrypt" /\ pc = "d_root"
    /\ Did("root")
    /\ output_path' =
        output_path \o <<SubSeq(pkg, 4, 3 + FromLe(SubSeq(pkg, 2, 3)))>>
    /\ fs' = CreateDirAll(fs, output_path')
    /\ Goto("d_extract")
    /\ UNCHANGED <<ghost, op, a, secrets, envl, dec>>

\* lines 285-293: the extraction root; an explicit one is created when absent
DecRoot ==
    /\ op = "decrypt" /\ pc = "d_root"
    /\ Did("root")
    /\ \E ok \in BOOLEAN :
        IF a.output # None /\ ~Exists(fs, output_path)
        THEN IF ok
             THEN fs' = CreateDirAll(fs, output_path) /\ Goto("d_extract")
             ELSE fs' = fs /\ Finish(Err("IoError", "create"))
        ELSE ok /\ fs' = fs /\ Goto("d_extract")
    /\ UNCHANGED <<ghost, call, secrets, envl, dec>>

\* lines 281-282, 296-300: the entries of the decompressed archive, each
\* unpacked under the root as it is read
DecExtract ==
    /\ op = "decrypt" /\ pc = "d_extract"
    /\ Did("extract")
    /\ LET raw == ZstdDecode(data)
           ar == IF raw = None THEN [entries |-> <<>>, ok |-> FALSE]
                 ELSE TarParse(Unwrap(raw))
       IN  \E n \in 0..Len(ar.entries) :
            /\ fs' = UnpackAll(fs, output_path, ar.entries, n)
            /\ IF n < Len(ar.entries)
               THEN Finish(Err("IoError", "tar unpack failed"))
               ELSE IF ~ar.ok
               THEN Finish(Err("IoError", "invalid tar entry"))
               ELSE Finish(Ok)
    /\ UNCHANGED <<ghost, call, secrets, envl, dec>>

----------------------------------------------------------------------------
(* Damage to a stored container between encrypt and decrypt *)

\* the positions of the ciphertext (payload bytes and tag) in a container
CiphertextPositions(bytes) == (HeaderLen + 1)..Len(bytes)

\* one bit of the stored ciphertext of the container encrypt wrote is flipped
FlipBit ==
    /\ pc = "done" /\ stage = "enc" /\ op = "encrypt" /\ result = Ok
    /\ \E pos \in CiphertextPositions(fs[output_path].data), bit \in 0..7 :
        fs' = Put(fs, output_path,
                  FileNode(FlipBitOf(fs[output_path].data, pos, bit)))
    /\ stage' = "tampered"
    /\ UNCHANGED <<scn, obs, fs0, typed, sealed, call, pc, result, trace, secrets,
                   envl, dec>>

Next ==
    \/ StartEncrypt
    \/ EncPrompt
    \/ EncParams
    \/ EncSalt
    \/ EncKdf
    \/ EncNonce
    \/ EncPack
    \/ EncSeal
    \/ EncZeroize
    \/ EncCreate
    \/ EncWrite
    \/ StartDecrypt
    \/ DecOpen
    \/ DecMagic
    \/ DecVersion
    \/ DecCosts
    \/ DecSaltNonce
    \/ DecCiphertext
    \/ DecPrompt
    \/ DecParams
    \/ DecKdf
    \/ DecAead
    \/ DecZeroize
    \/ DecUnpack
    \/ DecCreate
    \/ DecWrite
    \/ DecRoot
    \/ DecExtract

Spec == Init /\ [][Next]_vars

\* encrypt and decrypt are straight-line code on one thread: a step that can
\* be taken is taken
SpecLive == InitWith("live") /\ [][Next]_vars /\ WF_vars(Next)

InitTamper == InitWith("tamper")
NextTamper == Next \/ FlipBit
SpecTamper == InitTamper /\ [][NextTamper]_vars

\* Changes to the stored container that leave its ciphertext alone: the
\* header is not bound to the tag (no associated data, lines 136 and 208),
\* and the reader stops after ct_len bytes (line 193).

\* values written over a cost field
CostValues == {0, 1, 2, 3, 64, 19457}

\* bytes with the 4 bytes from position at replaced by v, little-endian
WithU32(bytes, at, v) == Take(bytes, at - 1) \o ToLe(v, 4) \o Drop(bytes, at + 3)

\* one of m_cost_kib (bytes 8-11), t_cost (12-15), p_cost (16-19) of the
\* container encrypt wrote is set to another value
SetCost ==
    /\ pc = "done" /\ stage = "enc" /\ op = "encrypt" /\ result = Ok
    /\ \E at \in {8, 12, 16}, v \in CostValues :
        /\ FromLe(SubSeq(fs[output_path].data, at, at + 3)) # v
        /\ fs' = Put(fs, output_path,
                     FileNode(WithU32(fs[output_path].data, at, v)))
    /\ stage' = "tampered"
    /\ UNCHANGED <<scn, obs, fs0, typed, sealed, call, pc, result, trace, secrets,
                   envl, dec>>

\* the version byte (byte 7) of the container encrypt wrote is set to 1
SetVersion ==
    /\ pc = "done" /\ stage = "enc" /\ op = "encrypt" /\ result = Ok
    /\ fs' = Put(fs, output_path,
                 FileNode(Take(fs[output_path].data, Len(MAGIC)) \o <<1>>
                          \o Drop(fs[output_path].data, Len(MAGIC) + 1)))
    /\ stage' = "tampered"
    /\ UNCHANGED <<scn, obs, fs0, typed, sealed, call, pc, result, trace, secrets,
                   envl, dec>>

\* bytes are appended to the container encrypt wrote
TrailingBytes == {<<0>>, <<74, 74>>, <<255, 0, 1>>}
AppendBytes ==
    /\ pc = "done" /\ stage = "enc" /\ op = "encrypt" /\ result = Ok
    /\ \E more \in TrailingBytes :
        fs' = Put(fs, output_path, FileNode(fs[output_path].data \o more))
    /\ stage' = "tampered"
    /\ UNCHANGED <<scn, obs, fs0, typed, sealed, call, pc, result, trace, secrets,
                   envl, dec>>

NextRewrite == Next \/ SetCost \/ SetVersion \/ AppendBytes
SpecRewrite == InitTamper /\ [][NextRewrite]_vars

----------------------------------------------------------------------------
(* Packaging alone.  Names longer than a 16-bit length can say are tried on *)
(* the packaging of lines 75-133 by itself: the input is built for the     *)
(* step, and the state keeps what was tried and what the package looks     *)
(* like, not the package.                                                   *)

\* n bytes b
Repeat(b, n) == SubSeq([i \in 1..n |-> b], 1, n)

\* lengths around what the 16-bit length field can say
ProbeLens == {0, 1, 2, U16Max - 1, U16Max, U16Max + 1, U16Max + 2}
\* "t", "T" and a byte that is not UTF-8
ProbeFills == {116, 84, 255}

\* an input at the top level: a file "x.<ext>" ("x" when n = 0) holding
\* data, or a directory "<name>" holding one file; n bytes fill make the
\* extension or the name; directory is the mode encrypt is called in
PackProbes ==
    {q \in [is_dir : BOOLEAN, directory : BOOLEAN, n : ProbeLens,
            fill : ProbeFills, data : Datas] : q.is_dir => q.n > 0}

ProbeName(q) ==
    IF q.is_dir THEN Repeat(q.fill, q.n)
    ELSE IF q.n = 0 THEN <<120>> ELSE <<120, ChDot>> \o Repeat(q.fill, q.n)

ProbeWorld(q) ==
    IF q.is_dir
    THEN Put(Put(<<>>, <<ProbeName(q)>>, DirNode),
             <<ProbeName(q), NmF>>, FileNode(q.data))
    ELSE Put(<<>>, <<ProbeName(q)>>, FileNode(q.data))

Min(x, y) == IF x < y THEN x ELSE y

\* what the package of q looks like: its length, its discriminator, its
\* length field, the first bytes of its name field, whether the bytes
\* between the length field and the last Len(q.data) bytes are the leading
\* bytes of the n fill bytes, and whether its last bytes are q.data
Observe(q, bytes) ==
    LET len == Len(bytes)
        cut == len - Len(q.data)
    IN  [probe |-> q,
         result |-> Ok,
         pkg_len |-> len,
         kind |-> bytes[1],
         len_field |-> FromLe(SubSeq(bytes, 2, 3)),
         name_head |-> SubSeq(bytes, 4, Min(len, 7)),
         name_is_fill |-> SubSeq(bytes, 4, cut) = Repeat(q.fill, cut - 3),
         tail_is_data |-> Drop(bytes, cut) = q.data]

Rejected(q, err) ==
    [probe |-> q, result |-> err, pkg_len |-> 0, kind |-> 0, len_field |-> 0,
     name_head |-> <<>>, name_is_fill |-> FALSE, tail_is_data |-> FALSE]

\* lines 75-133 on the input of one probe
PackStep ==
    /\ scn = "pack" /\ pc = "idle" /\ obs = NoObs
    /\ \E q \in PackProbes :
        LET f == ProbeWorld(q)
            input_path == <<ProbeName(q)>>
            bad == PackageError(f, input_path, q.directory)
        IN  obs' = IF bad # NoResult THEN Rejected(q, bad)
                   ELSE IF q.directory
                   THEN Observe(q, PackDirectory(f, input_path))
                   ELSE Observe(q, PackFile(f, input_path))
    /\ UNCHANGED <<scn, stage, fs, fs0, op, pc, a, output_path, password, key,
                   salt, nonce_bytes, pkg, ciphertext, r, hdr, org_ext, data,
                   result, trace, typed, sealed>>

InitPack == InitWith("pack")
NextPack == PackStep
SpecPack == InitPack /\ [][NextPack]_vars

\* encrypt and decrypt on the small inputs, packaging alone on the long ones
InitProbe == InitWith("main") \/ InitWith("pack")
NextProbe == Next \/ PackStep
SpecProbe == InitProbe /\ [][NextProbe]_vars

----------------------------------------------------------------------------
(* Properties *)

EncDone == op = "encrypt" /\ pc = "done"
DecDone == op = "decrypt" /\ pc = "done"
Happened(ev) == \E i \in 1..Len(trace) : trace[i] = ev
\* the password prompt returned a password
Prompted == typed # <<>>

\* a failure of the environment: the prompt, the random source, the key
\* derivation, creating or writing the output
EnvFailure ==
    result \in {Err("IoError", "prompt"), Err("IoError", "create"),
                Err("IoError", "write"), Err("IoError", "tar unpack failed"),
                Err("RngError", "rng"),
                Err("CryptoError", "argon2 key derivation failed")}

\* the bytes of the file the invocation was pointed at, when it started
InputBytes == IF IsFile(fs0, a.input) THEN fs0[a.input].data ELSE <<>>

\* decrypt was pointed at the container the preceding encrypt wrote, unchanged
Genuine ==
    /\ op = "decrypt"
    /\ sealed.container # <<>>
    /\ a.input = sealed.out
    /\ InputBytes = sealed.container

OriginalData == sealed.before[sealed.input].data
OriginalExt == UnwrapOr(Extension(sealed.input), <<>>)

\* C1: a file encrypted with pw and decrypted with the same pw comes back:
\* decrypt succeeds, the output holds the original bytes and carries the
\* original (UTF-8) extension, for every content including the empty one.
C1_FileRoundTrip ==
    (/\ DecDone /\ Genuine /\ ~sealed.directory /\ typed = sealed.pw
     /\ ToStr(OriginalExt) # None /\ ~EnvFailure)
    => /\ result = Ok
       /\ IsFile(fs, output_path)
       /\ fs[output_path].data = OriginalData
       /\ org_ext = OriginalExt
       /\ (a.output = None /\ OriginalExt # <<>>
            => Extension(output_path) = Some(OriginalExt))

\* C2: decrypting encrypt's container with another password ends in a
\* returned AuthenticationError and writes nothing.
C2_WrongPassword ==
    (/\ DecDone /\ Genuine /\ Prompted /\ typed # sealed.pw
     /\ result.kind # "CryptoError")
    => /\ result.tag = "err"
       /\ result.kind = "AuthenticationError"
       /\ fs = fs0

\* x is y with exactly one bit changed, at a ciphertext position
OneBitFlipped(x, y) ==
    /\ Len(x) = Len(y)
    /\ Cardinality({i \in 1..Len(y) : x[i] # y[i]}) = 1
    /\ \A i \in 1..Len(y) :
        x[i] # y[i] => /\ i > HeaderLen
                       /\ Xor(x[i], y[i]) \in {1, 2, 4, 8, 16, 32, 64, 128}

\* decrypt was pointed at encrypt's container with one ciphertext bit flipped
Tampered ==
    /\ op = "decrypt"
    /\ sealed.container # <<>>
    /\ a.input = sealed.out
    /\ OneBitFlipped(InputBytes, sealed.container)

\* C3: with any single bit of the stored ciphertext (payload or tag)
\* flipped, decrypt under the correct password ends in a returned
\* AuthenticationError and writes nothing.
C3_CiphertextTamper ==
    (DecDone /\ Tampered /\ typed = sealed.pw /\ result.kind # "CryptoError")
    => /\ result.tag = "err"
       /\ result.kind = "AuthenticationError"
       /\ fs = fs0

\* what the encrypted directory held: itself and everything below it
Below(f, p) == {q \in DOMAIN f : IsPrefix(p, q)}

\* under the extraction root, below the prefix base, the tree is the
\* encrypted one: same relative paths, same types, same contents
TreeReproduced(base) ==
    LET src == Below(sealed.before, sealed.input)
        to(q) == output_path \o <<base>> \o Drop(q, Len(sealed.input))
    IN  /\ \A q \in src : to(q) \in DOMAIN fs /\ fs[to(q)] = sealed.before[q]
        /\ Below(fs, output_path \o <<base>>) = {to(q) : q \in src}

DirRoundTrip ==
    /\ DecDone /\ Genuine /\ sealed.directory /\ typed = sealed.pw
    /\ ~EnvFailure

\* C4 as stated: a directory encrypted with pw and decrypted with pw is
\* reproduced under the extraction root, prefixed by the directory's base name.
C4_DirRoundTrip_Original ==
    DirRoundTrip
    => result = Ok /\ TreeReproduced(Unwrap(FileName(sealed.input)))

\* the name the archive uses for the directory
ArchiveBase ==
    IF FileName(sealed.input) # None /\ ToStr(Unwrap(FileName(sealed.input))) # None
    THEN Unwrap(FileName(sealed.input)) ELSE StrDir

\* C4, amended: the tree is reproduced under the extraction root, prefixed
\* by the directory's base name when the input path ends in a UTF-8 name,
\* and by "dir" otherwise.
C4_DirRoundTrip ==
    DirRoundTrip => result = Ok /\ TreeReproduced(ArchiveBase)

\* a nested tree (an empty subdirectory, an empty file) came back under an
\* explicit root that decrypt created
C4_Witness ==
    /\ DirRoundTrip /\ result = Ok
    /\ sealed.input = <<NmD>> /\ <<NmD, NmS, NmG>> \in DOMAIN sealed.before
    /\ a.output # None
    /\ <<NmO, NmD, NmE>> \in DOMAIN fs

\* C5: once the password has been obtained, every way out of encrypt and
\* decrypt - success and every failure - leaves the password buffer and the
\* derived-key buffer holding only zero bytes.
C5_SecretsZeroed ==
    (pc = "done" /\ Prompted) => IsZero(password) /\ IsZero(key)

HasMagic(b) == Len(b) >= 6 /\ Take(b, 6) = <<74, 74, 84, 79, 79, 76>>
CryptoSteps == {"prompt", "params", "kdf", "aead", "zeroize", "unpack"}

\* C6: a container whose version byte is neither 1 nor 2 is rejected with
\* UnsupportedVersion before any cryptographic work: no password prompt, no
\* key derivation, no AEAD open, nothing written.
C6_UnsupportedVersion ==
    (/\ op = "decrypt" /\ HasMagic(InputBytes) /\ Len(InputBytes) >= 7
     /\ InputBytes[7] \notin {1, 2})
    => /\ \A i \in 1..Len(trace) : trace[i] \notin CryptoSteps
       /\ typed = <<>> /\ password = <<>> /\ key = <<>> /\ pkg = <<>>
       /\ fs = fs0
       /\ (pc = "done" => result.tag = "err" /\ result.kind = "UnsupportedVersion")

\* a whole, correctly sealed container with version byte 3 was rejected
C6_Witness ==
    /\ DecDone /\ HasMagic(InputBytes) /\ Len(InputBytes) > HeaderLen
    /\ InputBytes[7] = 3
    /\ result.kind = "UnsupportedVersion"

\* the opened payload of a version-1 container has the legacy shape
LegacyWellFormed ==
    /\ hdr.payload_version = 1
    /\ Happened("unpack")
    /\ Len(pkg) >= 2
    /\ Len(pkg) >= 2 + FromLe(Take(pkg, 2))

\* C7: a version-1 container whose payload is ext_len, ext, data is decoded
\* on the legacy path: no discriminator is consumed and exactly data is
\* written to one file named <input stem>.<recovered extension>, or
\* <input stem>.out when the extension is empty.
C7_LegacyDecoding ==
    (DecDone /\ LegacyWellFormed /\ ~EnvFailure)
    => LET ext_len == FromLe(Take(pkg, 2))
           rec == FromUtf8Lossy(SubSeq(pkg, 3, 2 + ext_len))
           stem == Unwrap(RSplitFileAtDot(a.input[Len(a.input)])[1])
           name == stem \o <<46>> \o (IF rec = <<>> THEN <<111, 117, 116>> ELSE rec)
       IN  /\ result = Ok
           /\ IsFile(fs, output_path)
           /\ fs[output_path].data = Drop(pkg, 2 + ext_len)
           /\ (a.output = None
                => output_path = Take(a.input, Len(a.input) - 1) \o <<name>>)

\* C8: the container encrypt finishes writing is, in order and with nothing
\* else: "JJTOOL", the version byte 2, the three costs of the call as 4-byte
\* little-endian integers, the 16-byte salt, the 24-byte nonce, ct_len as an
\* 8-byte little-endian integer and ct_len ciphertext bytes, with ct_len the
\* payload length plus 16; 67 + ct_len bytes in all.
C8_EnvelopeLayout ==
    (EncDone /\ result = Ok)
    => LET b == fs[output_path].data
       IN  /\ Len(b) >= 67
           /\ SubSeq(b, 1, 6) = <<74, 74, 84, 79, 79, 76>>
           /\ b[7] = 2
           /\ FromLe(SubSeq(b, 8, 11)) = a.m_cost_kib
           /\ FromLe(SubSeq(b, 12, 15)) = a.t_cost
           /\ FromLe(SubSeq(b, 16, 19)) = a.p_cost
           /\ SubSeq(b, 20, 35) = salt
           /\ SubSeq(b, 36, 59) = nonce_bytes
           /\ FromLe(SubSeq(b, 60, 67)) = Len(b) - 67
           /\ FromLe(SubSeq(b, 60, 67)) = Len(pkg) + 16
           /\ SubSeq(b, 68, Len(b)) = ciphertext

\* encrypt finished a container for a directory under non-default costs
C8_Witness ==
    /\ EncDone /\ result = Ok
    /\ a.directory /\ a.m_cost_kib = 64
    /\ Len(fs[output_path].data) > 67 + 16

\* what the header of b must be rejected with, "" when it must not be
ExpectedHeaderError(b) ==
    IF Len(b) < 6 THEN "Truncated"
    ELSE IF Take(b, 6) # <<74, 74, 84, 79, 79, 76>> THEN "BadMagic"
    ELSE IF Len(b) < 7 THEN "Truncated"
    ELSE IF b[7] \notin {1, 2} THEN "UnsupportedVersion"
    ELSE IF Len(b) < 67 THEN "Truncated"
    ELSE IF (\E i \in 63..67 : b[i] # 0)
            \/ FromLe(SubSeq(b, 60, 62)) > Len(b) - 67 THEN "Truncated"
    ELSE ""

\* C9: decrypt validates the header in stream order - BadMagic when the
\* first 6 bytes are not "JJTOOL", else UnsupportedVersion when the version
\* is not 1 or 2, and Truncated when the stream ends inside a fixed field or
\* before ct_len ciphertext bytes - each before the password is requested
\* and before anything is written.
C9_HeaderErrors ==
    (DecDone /\ IsFile(fs0, a.input) /\ ExpectedHeaderError(InputBytes) # "")
    => /\ result.tag = "err"
       /\ result.kind = ExpectedHeaderError(InputBytes)
       /\ ~Happened("prompt")
       /\ typed = <<>>
       /\ fs = fs0

\* C10: every failure of encrypt and decrypt is one returned error with a
\* message; an invocation never panics or aborts, and asks for the password
\* at most once.
C10_ReturnedError ==
    pc = "done"
    => /\ result.tag \in {"ok", "err"}
       /\ (result.tag = "err" => result.msg # "")
       /\ Cardinality({i \in 1..Len(trace) : trace[i] = "prompt"}) <= 1

\* the opened payload is a file payload: version 1, or discriminator File
FilePayload ==
    hdr.payload_version = 1 \/ (Len(pkg) >= 1 /\ pkg[1] = 0)

\* the input's file name without its last extension
InputStem == Unwrap(RSplitFileAtDot(a.input[Len(a.input)])[1])

\* C11: without an explicit output path decrypt writes a file payload beside
\* the input at <input stem>.<recovered extension> ("out" when the recovered
\* extension is empty), also when the stem itself contains dots, and
\* extracts a directory payload into the input's parent directory; an
\* explicit output path is used instead.
C11_DecryptDefaultPath ==
    (DecDone /\ result = Ok)
    => IF a.output # None THEN output_path = Unwrap(a.output)
       ELSE IF FilePayload
       THEN /\ output_path =
                 Take(a.input, Len(a.input) - 1)
                 \o <<InputStem \o <<46>>
                      \o (IF org_ext = <<>> THEN <<111, 117, 116>> ELSE org_ext)>>
            /\ IsFile(fs, output_path)
       ELSE output_path = Take(a.input, Len(a.input) - 1)

\* the key the header b and the password pw determine
HeaderKey(b, pw) ==
    Argon2id(pw, SubSeq(b, 20, 35), FromLe(SubSeq(b, 8, 11)),
             FromLe(SubSeq(b, 12, 15)), FromLe(SubSeq(b, 16, 19)))

\* what encrypt wrote was sealed under the costs, salt and nonce of its header
HeaderDescribesSeal ==
    (EncDone /\ result = Ok)
    => LET b == fs[output_path].data
       IN  /\ FromLe(SubSeq(b, 8, 11)) = a.m_cost_kib
           /\ FromLe(SubSeq(b, 12, 15)) = a.t_cost
           /\ FromLe(SubSeq(b, 16, 19)) = a.p_cost
           /\ SubSeq(b, 68, Len(b)) = Seal(HeaderKey(b, typed), SubSeq(b, 36, 59), pkg)

\* the key decrypt is about to open with comes from the header's costs and
\* salt, and the nonce it opens with is the header's
DecryptUsesHeader ==
    (op = "decrypt" /\ pc = "d_aead")
    => /\ key = HeaderKey(InputBytes, typed)
       /\ nonce_bytes = SubSeq(InputBytes, 36, 59)
       /\ hdr.m_cost_kib = FromLe(SubSeq(InputBytes, 8, 11))
       /\ hdr.t_cost = FromLe(SubSeq(InputBytes, 12, 15))
       /\ hdr.p_cost = FromLe(SubSeq(InputBytes, 16, 19))

\* a container sealed under non-default costs decrypts with the right password
NonDefaultCostsDecrypt ==
    (/\ DecDone /\ Genuine /\ typed = sealed.pw /\ sealed.costs # DefaultCosts
     /\ ~EnvFailure)
    => result = Ok

\* C12: encrypt writes into the header exactly the cost triple, salt and
\* nonce it derived the key and sealed with; decrypt derives the key with the
\* header's costs and salt, never the defaults, and opens with the header's
\* nonce; hence a container encrypted under a valid non-default cost triple
\* decrypts successfully with the correct password.
C12_SelfDescribingCosts ==
    HeaderDescribesSeal /\ DecryptUsesHeader /\ NonDefaultCostsDecrypt

\* the key derived from the password, salt and costs of the last encrypt
SealedKey ==
    Argon2id(sealed.pw, sealed.salt, sealed.costs.m_cost_kib,
             sealed.costs.t_cost, sealed.costs.p_cost)

\* C13: key derivation is deterministic: the 32-byte key encrypt seals with
\* is the one its password, salt and costs determine, and the key decrypt
\* derives from the container's header and the same password is that same
\* key, the one the stored ciphertext was sealed under.
C13_DeriveKeyDeterministic ==
    /\ (op = "encrypt" /\ pc = "e_zeroize")
        => /\ Len(key) = 32
           /\ key = Argon2id(typed, salt, a.m_cost_kib, a.t_cost, a.p_cost)
           /\ ciphertext = Seal(key, nonce_bytes, pkg)
    /\ (op = "decrypt" /\ pc = "d_aead" /\ Genuine /\ typed = sealed.pw)
        => /\ Len(key) = 32
           /\ key = SealedKey
           /\ Seal(key, sealed.nonce, sealed.pkg) = Drop(sealed.container, HeaderLen)

\* decrypt derived the key of a container sealed under non-default costs
C13_Witness ==
    /\ op = "decrypt" /\ pc = "d_aead" /\ Genuine /\ typed = sealed.pw
    /\ sealed.costs = OtherCosts
    /\ key = SealedKey

\* Params::new accepts the triple: at least one pass, one to 2^24 - 1 lanes,
\* at least 8 KiB and at least 8 KiB per lane
CostsAccepted(m, t, p) ==
    t >= 1 /\ p >= 1 /\ p <= 16777215 /\ m >= 8 /\ m >= 8 * p

\* the cost triple the invocation works with: the arguments of encrypt, the
\* header of the container decrypt reads
CostsInvalid ==
    \/ op = "encrypt" /\ ~CostsAccepted(a.m_cost_kib, a.t_cost, a.p_cost)
    \/ /\ op = "decrypt"
       /\ ExpectedHeaderError(InputBytes) = "" /\ IsFile(fs0, a.input)
       /\ ~CostsAccepted(FromLe(SubSeq(InputBytes, 8, 11)),
                         FromLe(SubSeq(InputBytes, 12, 15)),
                         FromLe(SubSeq(InputBytes, 16, 19)))

\* C14: encrypt with an invalid cost triple, and decrypt of a container
\* whose header carries one, fail with ConfigError; no key is derived, no
\* AEAD operation is performed and nothing is written.
C14_InvalidCosts ==
    CostsInvalid
    => /\ key = <<>> /\ ciphertext \in {<<>>, Drop(InputBytes, HeaderLen)}
       /\ pkg = <<>>
       /\ \A i \in 1..Len(trace) :
            trace[i] \notin {"kdf", "seal", "aead", "create", "write", "root",
                             "extract"}
       /\ fs = fs0
       /\ (pc = "done" /\ result # Err("IoError", "prompt")
            => result.tag = "err" /\ result.kind = "ConfigError")

\* encrypt refused p_cost = 0
C14_WitnessEncrypt ==
    EncDone /\ a.p_cost = 0 /\ Prompted /\ result.kind = "ConfigError"

\* decrypt refused a container whose header says t_cost = 0
C14_Witness ==
    /\ DecDone /\ CostsInvalid /\ Prompted
    /\ FromLe(SubSeq(InputBytes, 12, 15)) = 0
    /\ result.kind = "ConfigError"

\* a packaging probe was made, in directory mode
DirProbe == obs # NoObs /\ obs.probe.directory

\* whenever encrypt rejects its input while packaging, nothing was created
\* or written, and directory mode rejects what is not a directory with IoError
RejectionCreatesNothing ==
    /\ (/\ EncDone
        /\ result \in {Err("IoError", "input is not a directory"),
                       Err("IoError", "input is not a file"),
                       Err("ConfigError", "base dir name too long")})
        => /\ fs = fs0
           /\ \A i \in 1..Len(trace) : trace[i] \notin {"seal", "create", "write"}
    /\ (/\ op = "encrypt" /\ a.directory /\ ~IsDir(fs0, a.input)
        /\ Happened("pack"))
        => /\ pc = "done"
           /\ result.tag = "err" /\ result.kind = "IoError"
    /\ (DirProbe /\ ~obs.probe.is_dir)
        => obs.result.tag = "err" /\ obs.result.kind = "IoError"

\* C15 as stated: encrypt in directory mode fails with IoError when the
\* input is not a directory and with ConfigError when the directory's final
\* path component is longer than 65535 bytes; no container is created.
C15_DirPackagingFailures_Original ==
    /\ RejectionCreatesNothing
    /\ (DirProbe /\ obs.probe.is_dir /\ obs.probe.n > 65535)
        => obs.result.tag = "err" /\ obs.result.kind = "ConfigError"

\* C15, amended: the ConfigError is for a final path component that is valid
\* UTF-8 and longer than 65535 bytes; a final component that is not valid
\* UTF-8 is packaged under the 3-byte name "dir" whatever its length.
C15_DirPackagingFailures ==
    /\ RejectionCreatesNothing
    /\ (DirProbe /\ obs.probe.is_dir /\ obs.probe.n > 65535)
        => IF obs.probe.fill < 128
           THEN obs.result.tag = "err" /\ obs.result.kind = "ConfigError"
           ELSE /\ obs.result = Ok
                /\ obs.kind = 1 /\ obs.len_field = 3
                /\ SubSeq(obs.name_head, 1, 3) = <<100, 105, 114>>
    /\ (DirProbe /\ obs.probe.is_dir /\ obs.probe.n <= 65535)
        => obs.result = Ok

\* packaging refused a directory whose UTF-8 name has 65536 bytes
C15_Witness ==
    /\ DirProbe /\ obs.probe.is_dir
    /\ obs.probe.n = 65536 /\ obs.probe.fill = 116
    /\ obs.result = Err("ConfigError", "base dir name too long")

\* encrypt refused, in directory mode, an input that is a file
C15_WitnessNotDir ==
    /\ EncDone /\ a.directory /\ IsFile(fs0, a.input) /\ Happened("kdf")
    /\ result = Err("IoError", "input is not a directory")

\* every e1 in the trace comes before every e2
Before(e1, e2) ==
    \A i, j \in 1..Len(trace) : trace[i] = e1 /\ trace[j] = e2 => i < j
\* e2 has not happened unless e1 happened before it
Follows(e2, e1) == (Happened(e2) => Happened(e1)) /\ Before(e1, e2)

\* C16: in every execution of encrypt the steps are payload packaging, then
\* key derivation, then AEAD seal, then header write; the input is
\* validated, read and packaged - and a 'not a file' / 'not a directory'
\* failure reported - before the key is derived.
C16_EncryptOrder ==
    op = "encrypt"
    => /\ Follows("kdf", "pack")
       /\ Follows("seal", "kdf")
       /\ Follows("write", "seal")
       /\ (PackageError(fs0, a.input, a.directory) # NoResult
            => ~Happened("kdf") /\ key = <<>>)

\* the ciphertext decrypt holds is the ct_len bytes the header declares
WholeCiphertextRead ==
    /\ Len(ciphertext) = FromLe(SubSeq(InputBytes, 60, 67))
    /\ ciphertext = SubSeq(InputBytes, 68, 67 + Len(ciphertext))

\* the last 16 bytes of the ciphertext are the tag of what precedes them,
\* under the key the header and the typed password determine
TagVerifies ==
    /\ Len(ciphertext) >= 16
    /\ Drop(ciphertext, Len(ciphertext) - 16)
        = Tag(HeaderKey(InputBytes, typed), nonce_bytes,
              Take(ciphertext, Len(ciphertext) - 16))

\* C17: in every execution of decrypt the steps are header read (with all
\* ct_len ciphertext bytes), then key derivation, then AEAD open, then
\* unpacking; the unpackager only processes bytes a successful AEAD open
\* returned: no output file, no extraction root and no archive entry is
\* created unless the tag verified.
C17_DecryptOrder ==
    op = "decrypt"
    => /\ Follows("kdf", "ciphertext")
       /\ Follows("ciphertext", "salt") /\ Follows("salt", "costs")
       /\ Follows("costs", "version") /\ Follows("version", "magic")
       /\ Follows("aead", "kdf")
       /\ Follows("unpack", "aead")
       /\ Follows("create", "unpack") /\ Follows("root", "unpack")
       /\ Follows("write", "create") /\ Follows("extract", "root")
       /\ (Happened("kdf") => WholeCiphertextRead)
       /\ (Happened("unpack")
            => /\ TagVerifies
               /\ pkg = StreamXor(HeaderKey(InputBytes, typed), nonce_bytes,
                                  Take(ciphertext, Len(ciphertext) - 16)))
       /\ (~Happened("unpack") => fs = fs0)

\* a directory was extracted into a root decrypt created, after the tag of
\* the container verified
C17_Witness ==
    /\ DecDone /\ result = Ok
    /\ Happened("root") /\ Happened("extract")
    /\ TagVerifies
    /\ fs # fs0

\* where the length field of a file payload ends: after 2 bytes in version 1,
\* after the discriminator and 2 bytes in version 2
FieldsEnd == IF hdr.payload_version = 1 THEN 2 ELSE 3

\* the opened payload is len(e), e, d in a version-1 container, or
\* 00, len(e), e, d in a version-2 container
FilePayloadOf(e, d) ==
    /\ Happened("unpack")
    /\ hdr.payload_version \in {1, VERSION}
    /\ pkg = (IF hdr.payload_version = 1 THEN LegacyPayload(e, d)
              ELSE TaggedPayload(KindFile, e, d))

\* the extension bytes and the data the opened payload declares
DeclaredLen == FromLe(SubSeq(pkg, FieldsEnd - 1, FieldsEnd))
DeclaredExt == SubSeq(pkg, FieldsEnd + 1, FieldsEnd + DeclaredLen)
DeclaredData == Drop(pkg, FieldsEnd + DeclaredLen)

\* C18: a version-2 File payload 00, len(e), e, d and a legacy version-1
\* payload len(e), e, d with the same e and d have the same outcome: decrypt
\* writes exactly d to one file whose extension is the one recovered from e,
\* at the path the default-path rule gives; for every e, and every d
\* including the empty one.
C18_FileFormatsAgree ==
    (DecDone /\ Happened("unpack") /\ ~EnvFailure
       /\ Len(pkg) >= FieldsEnd /\ Len(pkg) >= FieldsEnd + DeclaredLen
       /\ FilePayloadOf(DeclaredExt, DeclaredData))
    => /\ result = Ok
       /\ org_ext = FromUtf8Lossy(DeclaredExt)
       /\ output_path = DecryptOutputPath(a.input, a.output, org_ext)
       /\ fs = Put(fs0, output_path, FileNode(DeclaredData))

\* packaging in file mode accepted a file whose extension is n bytes fill
FileProbe ==
    /\ obs # NoObs
    /\ ~obs.probe.is_dir /\ ~obs.probe.directory
    /\ obs.result = Ok

\* the package is 00, the length field, k bytes fill, the data
EmitsExt(k) ==
    /\ obs.kind = KindFile
    /\ obs.pkg_len = 3 + k + Len(obs.probe.data)
    /\ obs.name_is_fill
    /\ obs.tail_is_data

\* C19 as stated: for an extension longer than 65535 bytes the length field
\* is 65535 and all extension bytes are emitted after it; for an extension of
\* at most 65535 bytes the length field is its byte length and its bytes are
\* emitted unchanged, case preserved.
C19_OversizedExtension_Original ==
    FileProbe
    => IF obs.probe.n > U16Max
       THEN obs.len_field = U16Max /\ EmitsExt(obs.probe.n)
       ELSE obs.len_field = obs.probe.n /\ EmitsExt(obs.probe.n)

\* C19: for a UTF-8 extension longer than 65535 bytes the length field is
\* 65535 and exactly the first 65535 extension bytes are emitted after it;
\* for a UTF-8 extension of at most 65535 bytes the length field is its byte
\* length and its bytes are emitted unchanged, case preserved; an extension
\* that is not UTF-8 is stored as the empty extension.
C19_OversizedExtension ==
    FileProbe
    => IF obs.probe.n > 0 /\ obs.probe.fill > 127
       THEN obs.len_field = 0 /\ EmitsExt(0)
       ELSE IF obs.probe.n > U16Max
       THEN obs.len_field = U16Max /\ EmitsExt(U16Max)
       ELSE obs.len_field = obs.probe.n /\ EmitsExt(obs.probe.n)

\* a file with an extension of 65536 bytes "T" was packaged
C19_Witness ==
    /\ FileProbe
    /\ obs.probe.n = U16Max + 1 /\ obs.probe.fill = 84
    /\ obs.len_field = U16Max
    /\ obs.name_head = <<84, 84, 84, 84>>
    /\ obs.pkg_len = 3 + U16Max + Len(obs.probe.data)

\* the payload is shorter than its fixed fields, or than the extension or
\* name its length field declares
Shortfall == Len(pkg) < FieldsEnd \/ Len(pkg) < FieldsEnd + DeclaredLen

\* C20: whatever the length of the authenticated payload (0, 1 and 2 bytes
\* included) and whatever extension or name length it declares, on the
\* legacy, File and Directory paths alike, the unpackager checks the length
\* before it slices a field: a payload too short for its fields is answered
\* with the Truncated error and nothing is created, no slice ever reaches past
\* the payload, and the fields taken lie inside it.
C20_UnpackBounds ==
    (op = "decrypt" /\ Happened("unpack"))
    => /\ result # SlicePanic
       /\ (Shortfall => result = TruncatedPayload /\ fs = fs0)
       /\ (result # TruncatedPayload
            => /\ ~Shortfall
               /\ data = DeclaredData
               /\ Len(data) = Len(pkg) - FieldsEnd - DeclaredLen
               /\ (FilePayload => org_ext = FromUtf8Lossy(DeclaredExt)))

\* decrypt refused a version-2 payload of three bytes that declares an
\* extension of one byte
C20_Witness ==
    /\ DecDone /\ Happened("unpack")
    /\ hdr.payload_version = VERSION
    /\ pkg = <<0, 1, 0>>
    /\ result = TruncatedPayload

\* decrypt took the single-file path, the directory-archive path
UnpackedAsFile == Happened("create") \/ Happened("write")
UnpackedAsDirectory == Happened("root") \/ Happened("extract")

\* C21: the dispatch on the discriminator of a version-2 payload is closed:
\* the payload is unpacked as a single file only when the byte is 0, as a
\* directory archive only when it is 1, and as neither when it is any other
\* value: nothing is created and decrypt does not succeed.
C21_ClosedDispatch ==
    (op = "decrypt" /\ Happened("unpack") /\ hdr.payload_version = VERSION
       /\ Len(pkg) >= 1)
    => /\ (UnpackedAsFile => pkg[1] = KindFile)
       /\ (UnpackedAsDirectory => pkg[1] = KindDirectory)
       /\ (pkg[1] \notin {KindFile, KindDirectory}
            => ~UnpackedAsFile /\ ~UnpackedAsDirectory /\ fs = fs0
               /\ result # Ok)

\* decrypt was pointed at encrypt's container with one cost field changed
\* and every other byte as written
CostsTampered ==
    /\ op = "decrypt"
    /\ sealed.container # <<>>
    /\ a.input = sealed.out
    /\ Len(InputBytes) = Len(sealed.container)
    /\ \E at \in {8, 12, 16} :
        /\ SubSeq(InputBytes, at, at + 3) # SubSeq(sealed.container, at, at + 3)
        /\ InputBytes
            = WithU32(sealed.container, at, FromLe(SubSeq(InputBytes, at, at + 3)))

\* C22: with any one of the three cost fields of a valid container changed to
\* a different value, decrypt under the correct password ends in a returned
\* authentication failure; no plaintext is produced and nothing is written.
C22_CostTamper ==
    (DecDone /\ CostsTampered /\ typed = sealed.pw /\ result.kind # "CryptoError")
    => /\ result.tag = "err"
       /\ result.kind = "AuthenticationError"
       /\ pkg = <<>>
       /\ fs = fs0

\* decrypt was pointed at encrypt's container with the version byte set to 1
\* and every other byte as written
VersionRewritten ==
    /\ op = "decrypt"
    /\ sealed.container # <<>>
    /\ a.input = sealed.out
    /\ InputBytes = Take(sealed.container, 6) \o <<1>> \o Drop(sealed.container, 7)

\* the legacy ext_len read from a version-2 payload: its discriminator byte
\* and the low byte of its length field
MisreadExtLen == sealed.pkg[1] + 256 * sealed.pkg[2]

\* C23: the version byte is not authenticated: a version-2 container whose
\* version byte alone is changed to 1 passes the AEAD open under the correct
\* password with the payload that was sealed, and is parsed on the legacy
\* path, which takes the discriminator byte and the low byte of the length
\* field for ext_len.
C23_VersionNotAuthenticated ==
    (DecDone /\ VersionRewritten /\ (Prompted => typed = sealed.pw)
       /\ ~EnvFailure)
    => /\ hdr.payload_version = 1
       /\ Prompted
       /\ Happened("aead") /\ result # OpenFailed
       /\ pkg = sealed.pkg
       /\ Happened("unpack")
       /\ IF Len(pkg) < 2 + MisreadExtLen
          THEN result = TruncatedPayload /\ fs = fs0
          ELSE /\ org_ext = FromUtf8Lossy(SubSeq(pkg, 3, 2 + MisreadExtLen))
               /\ data = Drop(pkg, 2 + MisreadExtLen)
               /\ result = Ok
               /\ fs = Put(fs0, output_path, FileNode(data))

\* the container of the extensionless file "n" holding <<7>>, version byte
\* rewritten: the legacy path wrote the length field's high byte and the data
C23_Witness ==
    /\ DecDone /\ VersionRewritten /\ typed = sealed.pw
    /\ sealed.pkg = <<0, 0, 0, 7>>
    /\ result = Ok
    /\ data = <<0, 7>>
    /\ IsFile(fs, output_path) /\ fs[output_path].data = <<0, 7>>

\* encrypt failed in a step before the output file is created
FailedEarly ==
    /\ EncDone
    /\ result \in {Err("IoError", "prompt"),
                   Err("ConfigError", "invalid Argon2 params"),
                   Err("RngError", "rng"),
                   Err("CryptoError", "argon2 key derivation failed"),
                   Err("IoError", "input is not a file"),
                   Err("IoError", "input is not a directory"),
                   Err("ConfigError", "base dir name too long"),
                   Err("IoError", "read"), Err("IoError", "tar"),
                   Err("IoError", "zstd encode failed")}

\* C24: encrypt creates or truncates the output file only after the payload
\* is packaged and sealed; when an earlier step fails (prompt, costs, random
\* source, key derivation, input-type check, read, tar, compression) the
\* output path is untouched: not created, and a file already there keeps
\* its content.
C24_OutputAfterEnvelope ==
    op = "encrypt"
    => /\ Follows("create", "pack") /\ Follows("create", "seal")
       /\ Follows("write", "create")
       /\ (~Happened("create") => fs = fs0)
       /\ (Happened("create")
            => ciphertext = Seal(Argon2id(typed, salt, a.m_cost_kib, a.t_cost,
                                          a.p_cost), nonce_bytes, pkg))
       /\ (FailedEarly
            => /\ ~Happened("create")
               /\ (output_path \in DOMAIN fs <=> output_path \in DOMAIN fs0)
               /\ (output_path \in DOMAIN fs0
                    => fs[output_path] = fs0[output_path]))

\* encrypt was refused the input's type while a file stood at the explicit
\* output path: that file is as it was
C24_Witness ==
    /\ FailedEarly
    /\ result \in {Err("IoError", "input is not a file"),
                   Err("IoError", "input is not a directory")}
    /\ a.output = Some(<<NmO>>)
    /\ IsFile(fs0, <<NmO>>)
    /\ fs[<<NmO>>] = OldOutput

\* the key this invocation derived from what was typed
DerivedKey ==
    IF op = "encrypt"
    THEN Argon2id(typed, salt, a.m_cost_kib, a.t_cost, a.p_cost)
    ELSE Argon2id(typed, salt, hdr.m_cost_kib, hdr.t_cost, hdr.p_cost)

\* x occurs in y as a run of consecutive bytes
Occurs(x, y) ==
    \E i \in 1..(Len(y) - Len(x) + 1) : SubSeq(y, i, i + Len(x) - 1) = x

\* the files the invocation created or changed
Written == {q \in DOMAIN fs : IsFile(fs, q) /\ (q \notin DOMAIN fs0 \/ fs[q] # fs0[q])}

OutputSteps == {"create", "write", "root", "extract"}

DirectoryPayload ==
    /\ op = "decrypt" /\ Happened("unpack")
    /\ hdr.payload_version = VERSION
    /\ Len(pkg) >= 3 /\ pkg[1] = KindDirectory
    /\ Len(pkg) >= 3 + DeclaredLen + 1

\* the entries of the archive the payload carries after its base name
ArchiveOf(d) ==
    IF ZstdDecode(d) = None THEN [entries |-> <<>>, ok |-> FALSE]
    ELSE TarParse(Unwrap(ZstdDecode(d)))

\* the paths beneath root an archive's entries name: each entry and its parents
EntryPaths(root, es) ==
    UNION {{root \o Take(es[i].path, k) : k \in 1..Len(es[i].path)} :
            i \in 1..Len(es)}

\* C26: for a version-2 Directory payload and an explicit output path that
\* does not exist, decrypt creates that directory with its missing parents
\* and unpacks every entry of the archive beneath it; what is created is
\* determined by the output path and the archive alone: the base name stored
\* in the payload has no effect on where the entries go.
C26_ExtractionRoot ==
    (/\ DecDone /\ DirectoryPayload /\ ~EnvFailure
     /\ a.output # None /\ ~Exists(fs0, Unwrap(a.output))
     /\ ArchiveOf(DeclaredData).ok)
    => LET root == Unwrap(a.output)
           es == ArchiveOf(DeclaredData).entries
       IN  /\ result = Ok
           /\ output_path = root
           /\ \A k \in 1..Len(root) : IsDir(fs, Take(root, k))
           /\ \A i \in 1..Len(es) :
                /\ root \o es[i].path \in DOMAIN fs
                /\ fs[root \o es[i].path].dir = es[i].dir
                /\ fs[root \o es[i].path].data = es[i].data
           /\ DOMAIN fs \ DOMAIN fs0
                = {Take(root, k) : k \in 1..Len(root)} \cup EntryPaths(root, es)
           /\ \A q \in DOMAIN fs0 : fs[q] = fs0[q]

\* the archive of "d", stored under the base name "e", was extracted into
\* "m/e", which did not exist: "m/e/d/f" is there and "m/e/e" is not
C26_Witness ==
    /\ DecDone /\ DirectoryPayload /\ result = Ok
    /\ a.output = Some(<<NmM, NmE>>)
    /\ DeclaredExt = NmE
    /\ ~Exists(fs0, <<NmM>>)
    /\ IsFile(fs, <<NmM, NmE, NmD, NmF>>)
    /\ ~Exists(fs, <<NmM, NmE, NmE>>)

\* an invocation is under way
Running == pc \notin {"idle", "done"}
Completed == pc = "done" /\ result = Ok
Failed == pc = "done" /\ result.tag \in {"err", "panic", "abort"}

\* no step of the invocation was taken twice
NoStepRepeated ==
    \A i, j \in 1..Len(trace) : trace[i] = trace[j] => i = j

\* C27: every invocation of encrypt or decrypt ends: it reaches a terminal
\* state, which is either completed or failed; no step is taken twice (no
\* retry), there is no state it stays in for ever, and no outcome besides
\* these two.
C27_Terminates ==
    Running ~> ((Completed \/ Failed) /\ ~(Completed /\ Failed) /\ NoStepRepeated)

\* one invocation completed and another failed
C27_Witness ==
    /\ DecDone /\ Failed
    /\ sealed.container # <<>>
    /\ Len(trace) >= 2

\* decrypt was pointed at encrypt's container with bytes appended
TrailingAppended ==
    /\ op = "decrypt"
    /\ sealed.container # <<>>
    /\ a.input = sealed.out
    /\ Len(InputBytes) > Len(sealed.container)
    /\ Take(InputBytes, Len(sealed.container)) = sealed.container

\* what decrypt has read once the ciphertext is in: the fields of the
\* container as encrypt wrote it, with everything after them left unread
ReadAsWritten ==
    /\ hdr = [payload_version |-> VERSION,
              m_cost_kib |-> sealed.costs.m_cost_kib,
              t_cost |-> sealed.costs.t_cost, p_cost |-> sealed.costs.p_cost]
    /\ salt = sealed.salt
    /\ nonce_bytes = sealed.nonce
    /\ ciphertext = Drop(sealed.container, HeaderLen)
    /\ r = Drop(InputBytes, Len(sealed.container))

\* what decrypting the container encrypt wrote ends in, under the password
\* it was sealed with: the directory extracted, the file written, a File
\* payload without data refused
SealedOutcome ==
    /\ pkg = sealed.pkg
    /\ IF sealed.directory
       THEN /\ result = Ok
            /\ fs = UnpackAll(fs0, output_path, ArchiveOf(DeclaredData).entries,
                              Len(ArchiveOf(DeclaredData).entries))
       ELSE IF OriginalData = <<>>
       THEN result = TruncatedPayload /\ fs = fs0
       ELSE /\ result = Ok
            /\ output_path = DecryptOutputPath(a.input, a.output, org_ext)
            /\ fs = Put(fs0, output_path, FileNode(OriginalData))

\* C28: decrypt reads the 67 header bytes and ct_len ciphertext bytes and
\* never asks for the end of the stream: a container with bytes appended is
\* read as the container without them, the appended bytes stay unread, and
\* decrypt ends with the same outcome and the same output as for the
\* container without them.
C28_TrailingBytesIgnored ==
    /\ (op = "decrypt" /\ TrailingAppended /\ Happened("ciphertext"))
        => /\ result # Truncated
           /\ Happened("prompt") \/ pc = "d_prompt"
           /\ ReadAsWritten
    /\ (DecDone /\ (Genuine \/ TrailingAppended) /\ typed = sealed.pw
          /\ ~EnvFailure)
        => SealedOutcome

\* the container of "a.t" with bytes appended was decrypted: the file is
\* back and the appended bytes were never read
C28_Witness ==
    /\ DecDone /\ TrailingAppended /\ typed = sealed.pw
    /\ result = Ok
    /\ r # <<>>
    /\ ~sealed.directory
    /\ fs[output_path].data = OriginalData

\* the paths the invocation created or changed
Touched == {q \in DOMAIN fs : q \notin DOMAIN fs0 \/ fs[q] # fs0[q]}

\* decrypt is on the directory path: what it resolved is an extraction root
ExtractsArchive == op = "decrypt" /\ UnpackedAsDirectory

\* C29: encrypt and decrypt only read their input; they write to the
\* resolved output path (file payload, container) or to the extraction root,
\* its missing parents and paths beneath it (directory payload), and nothing
\* that exists is removed; whenever the resolved output path differs from
\* the input path, the input file holds after the call what it held before,
\* on success and on every failure.
C29_InputFrame ==
    op \in {"encrypt", "decrypt"}
    => /\ \A q \in DOMAIN fs0 : q \in DOMAIN fs
       /\ \A q \in Touched :
            IF ExtractsArchive
            THEN IsPrefix(output_path, q) \/ IsPrefix(q, output_path)
            ELSE q = output_path
       /\ (IsFile(fs0, a.input) /\ output_path # a.input
            => IsFile(fs, a.input) /\ fs[a.input] = fs0[a.input])

\* the file name nm with its last extension replaced by "jj": what follows
\* the last dot goes, unless that dot starts the name; "jj" is appended
\* after a dot
WithJj(nm) ==
    LET dots == {i \in 2..Len(nm) : nm[i] = 46}
        keep == IF dots = {} THEN Len(nm)
                ELSE (CHOOSE i \in dots : \A j \in dots : j <= i) - 1
    IN  SubSeq(nm, 1, keep) \o <<46, 106, 106>>

\* C30: without an explicit output path encrypt writes the container to the
\* input path with its last extension replaced by "jj" ("jj" appended when
\* the input has none), in file mode and in directory mode alike; an
\* explicit output path is used as given; an input whose extension is
\* already "jj" resolves to the input path itself.
C30_EncryptDefaultPath ==
    op = "encrypt"
    => /\ (a.output # None => output_path = Unwrap(a.output))
       /\ (a.output = None
            => output_path
                = Take(a.input, Len(a.input) - 1) \o <<WithJj(a.input[Len(a.input)])>>)
       /\ (a.output = None /\ Extension(a.input) = Some(<<106, 106>>)
            => output_path = a.input)
       /\ (EncDone /\ result = Ok
            => IsFile(fs, output_path)
               /\ fs[output_path].data = sealed.container)

\* "c.jj" was encrypted without an explicit output: the container replaced
\* the input at "c.jj"
C30_Witness ==
    /\ EncDone /\ result = Ok
    /\ a.output = None
    /\ a.input = <<NmC>>
    /\ output_path = a.input
    /\ fs[a.input].data = sealed.container
====
